---- MODULE Spec2Model ----
(***************************************************************************)
(* Resume_Optimizer: the scoring and structural-analysis engine.           *)
(*                                                                         *)
(*   backend/ats_calculator.py     ATSCalculator (score aggregator, gate)  *)
(*   backend/suggest_skills.py     extract_skills, get_missing_skills      *)
(*   backend/restructure_advice.py analyze_resume_structure                *)
(*   backend/parser.py             _normalize                              *)
(*   backend/main.py               check_rate_limit, /process              *)
(*                                                                         *)
(* A text is a literal body followed by skill phrases ("<body> python.     *)
(* sql."); what the regular expressions and the substring scans of the     *)
(* code find in a body is tabulated per body, and everything that depends  *)
(* on the phrases (lengths, occurrence counts, substring membership, the   *)
(* skill sets) is computed from them as the code computes it.  The         *)
(* external NLP services (SkillNER annotate, spaCy) are deterministic      *)
(* functions of the text, except that annotate may raise at any call.      *)
(* Scores are kept in integer units of 1/Unit so that the weighted sums    *)
(* are exact.                                                              *)
(***************************************************************************)
EXTENDS Integers, Sequences, FiniteSets, TLC

VARIABLES
    request,        \* the inputs of the run: jd text, resume text, structure
    ss_extractor,   \* suggest_skills.skill_extractor (module global)
    calc,           \* the ATSCalculator the caller holds, or NoCalc
    last,           \* the call that returned last and its outcome
    failed,         \* history: annotate has raised in some earlier call
    ref,            \* history: an earlier total_score call on calc
    request_logs,   \* main.request_logs: the logged request times per IP
    now,            \* time.time(), in seconds
    threads         \* the concurrent skill-extraction calls: position and locals

vars ==
    <<request, ss_extractor, calc, last, failed, ref, request_logs, now, threads>>

----------------------------------------------------------------------------
(* Bounds of the model *)

MaxElems == 3       \* elements in a resume structure
MaxCount == 2       \* occurrences of one phrase in a job description
MaxTime == 90       \* the clock stops here
TickSeconds == 30   \* the clock advances in steps of this many seconds
MaxRequests == 2    \* requests a run sends to /process
NumThreads == 2     \* concurrent calls

----------------------------------------------------------------------------
(* Small helpers *)

Max(a, b) == IF a >= b THEN a ELSE b
Min(a, b) == IF a <= b THEN a ELSE b

RECURSIVE SumOver(_, _)
SumOver(S, f) ==
    IF S = {} THEN 0
    ELSE LET x == CHOOSE y \in S : TRUE IN f[x] + SumOver(S \ {x}, f)

Range(s) == {s[i] : i \in 1..Len(s)}

----------------------------------------------------------------------------
(* Texts *)

\* The skill phrases a text can mention (lowercase surface forms).
Phrases == {"python", "sql", "machine learning", "postgresql"}

\* Literal bodies.  "none" is None, "nonstr" a truthy non-string (42).
\*   empty   ""
\*   ws      "   "
\*   short   "Hire now"
\*   noise   60 times "#"
\*   prose   "We are hiring an engineer to build and maintain our internal
\*            data platform today."                 (one sentence, no keyword)
\*   resume  "John Doe\njohn@email.com\n(555) 123-4567\n
\*            linkedin.com/in/johndoe\nExperience: Software Engineer
\*            2016-2020. Developed and led internal services for the
\*            billing team with 3 years of experience with databases.
\*            Education: BSc. Skills: testing;"
\*   techlist "We run the following stack in production and expect
\*            hands-on work across it: aws, azure, docker, kubernetes,
\*            jenkins, terraform, ansible, linux, redis, mongodb, mysql,
\*            django, flask, react, angular, typescript, javascript, html,
\*            css, graphql, kafka, tensorflow, pandas, numpy. Docker and
\*            kubernetes are used daily; docker most of all."
\*   junior   prose, then " Worked 2019-2020."
\*   veteran  prose, then " Worked 1975-2020."
\*   oneyear  prose, then " Worked 2020-2020."
\*   senior   prose, then " Requires 41 years of experience."
\*   staff    prose, then " Requires 2 years of experience, at least 40 yrs
\*            experience."
\*   toolbox  prose, then " Tools: - / dependable delivery flow with steady
\*            weekly handoffs while keeping the whole team well informed
\*            about due dates and duties;"
DatedBodies     == {"junior", "veteran", "oneyear"}
RequiringBodies == {"senior", "staff"}

StringBodies ==
    {"empty", "ws", "short", "noise", "prose", "resume", "techlist", "toolbox"}
        \cup DatedBodies \cup RequiringBodies
NonStrings   == {"none", "nonstr"}

BodyLen(b) ==
    CASE b = "empty"  -> 0
      [] b = "ws"     -> 3
      [] b = "short"  -> 8
      [] b = "noise"  -> 60
      [] b = "prose"  -> 81
      [] b = "resume" -> 236
      [] b = "techlist" -> 334
      [] b \in DatedBodies -> 99
      [] b = "senior" -> 114
      [] b = "staff"  -> 141
      [] b = "toolbox" -> 216
      [] OTHER        -> 0

\* len(body.strip())
BodyStrippedLen(b) == IF b = "ws" THEN 0 ELSE BodyLen(b)

\* sum(c.isalnum() or c.isspace() for c in body)
BodyAlnumSpace(b) ==
    CASE b = "empty"  -> 0
      [] b = "ws"     -> 3
      [] b = "short"  -> 8
      [] b = "noise"  -> 0
      [] b = "prose"  -> 80
      [] b = "resume" -> 220
      [] b = "techlist" -> 306
      [] b \in DatedBodies -> 96
      [] b = "senior" -> 112
      [] b = "staff"  -> 138
      [] b = "toolbox" -> 211
      [] OTHER        -> 0

NoMentions == [p \in Phrases |-> 0]

IsStr(t) == t.body \in StringBodies

Mentioned(t) == {p \in Phrases : t.mentions[p] > 0}

NumMentions(t) == SumOver(Phrases, t.mentions)

\* Each mention is written " <phrase>." after the body.
MentionsLen(t) == SumOver(Phrases, [p \in Phrases |-> t.mentions[p] * (Len(p) + 2)])

TextLen(t) == BodyLen(t.body) + MentionsLen(t)

\* len(text.strip()): a body that strips to nothing also loses the blank
\* before the first mention.
StrippedLen(t) ==
    IF NumMentions(t) = 0 THEN BodyStrippedLen(t.body)
    ELSE IF BodyStrippedLen(t.body) = 0 THEN MentionsLen(t) - 1
    ELSE BodyLen(t.body) + MentionsLen(t)

\* The full stop after each mention is the only non-alphanumeric character.
AlnumSpace(t) ==
    BodyAlnumSpace(t.body)
        + SumOver(Phrases, [p \in Phrases |-> t.mentions[p] * (Len(p) + 1)])

\* `not text`
Falsy(t) == t.body = "none" \/ (IsStr(t) /\ TextLen(t) = 0)

\* `not text.strip()` of a string
Blank(t) == StrippedLen(t) = 0

\* All texts whose phrases occur at most maxc times; a non-string carries
\* no mentions.
TextsUpTo(bodies, maxc) ==
    {[body |-> b, mentions |-> m] : b \in bodies, m \in [Phrases -> 0..maxc]}

NonStringTexts == {[body |-> b, mentions |-> NoMentions] : b \in NonStrings}

----------------------------------------------------------------------------
(* parser._normalize and ATSCalculator._validate_text *)

\* Lowercase and collapse whitespace: a whitespace-only body becomes "".
\* Phrases are lowercase already and the other bodies hold no skill phrase.
_normalize(t) ==
    IF Falsy(t) THEN [body |-> "empty", mentions |-> NoMentions]
    ELSE IF t.body = "ws" THEN [t EXCEPT !.body = "empty"]
    ELSE t

MIN_TEXT_LENGTH == 50

ValidateMutShort(t) ==
    IF ~IsStr(t) \/ Blank(t) THEN "empty or not a string"
    ELSE IF 2 * AlnumSpace(t) < Max(1, TextLen(t)) THEN "too many non-text characters"
    ELSE "ok"

\* "ok", or the reason of the rejection.
_validate_text(t) ==
    IF ~IsStr(t) \/ Blank(t) THEN "empty or not a string"
    ELSE IF StrippedLen(t) < MIN_TEXT_LENGTH THEN "too short"
    ELSE IF 2 * AlnumSpace(t) < Max(1, TextLen(t)) THEN "too many non-text characters"
    ELSE "ok"

----------------------------------------------------------------------------
(* Vocabularies *)

\* suggest_skills.COMMON_SKILLS, in the order of Python's string comparison.
COMMON_SORTED ==
    <<".net", "agile", "android", "angular", "ansible", "api", "asp.net",
      "aws", "azure", "bash", "bootstrap", "c", "c#", "c++", "cassandra",
      "chef", "confluence", "cordova", "css", "data analysis",
      "data science", "deep learning", "django", "docker", "dynamodb",
      "elasticsearch", "excel", "express", "firebase", "flask", "flutter",
      "gcp", "git", "github", "gitlab", "go", "graphql", "html", "ionic",
      "ios", "java", "javascript", "jenkins", "jira", "jquery", "jupyter",
      "kanban", "keras", "kotlin", "kubernetes", "laravel", "less",
      "linux", "machine learning", "matlab", "matplotlib", "microservices",
      "mongodb", "mysql", "node.js", "nosql", "numpy", "oracle", "pandas",
      "perl", "php", "postgresql", "power bi", "powershell", "puppet",
      "python", "pytorch", "r", "react", "react native", "redis", "rest",
      "ruby", "ruby on rails", "rust", "sass", "scala", "scikit-learn",
      "scrum", "seaborn", "shell", "slack", "spring", "sql", "sqlite",
      "statistics", "swift", "tableau", "teams", "tensorflow", "terraform",
      "typescript", "unix", "vagrant", "vue", "windows", "xamarin", "zoom">>

COMMON_SKILLS == Range(COMMON_SORTED)

\* The rank of a vocabulary skill in alphabetical order.
AlphaIndex(s) == CHOOSE i \in 1..Len(COMMON_SORTED) : COMMON_SORTED[i] = s

\* The local vocabulary of ATSCalculator._extract_skills.
ATS_COMMON_SKILLS ==
    {"python", "java", "javascript", "sql", "html", "css", "react", "angular",
     "machine learning", "data analysis", "docker", "kubernetes", "aws", "azure"}

\* The technologies the techlist body names once.
TechOnce ==
    {"aws", "azure", "jenkins", "terraform", "ansible", "linux", "redis",
     "mongodb", "mysql", "django", "flask", "react", "angular", "typescript",
     "javascript", "html", "css", "graphql", "tensorflow", "pandas", "numpy"}

\* body.lower().count(s) for the strings s of the two vocabularies.
BodyCount(b, s) ==
    CASE b = "short"    -> IF s = "r" THEN 1 ELSE 0
      [] b = "prose"    -> IF s = "r" THEN 6 ELSE 0
      [] b = "resume"   -> IF s = "r" THEN 8 ELSE IF s = "c" THEN 7 ELSE 0
      [] b \in DatedBodies -> IF s = "r" THEN 7 ELSE 0
      [] b = "toolbox"  -> IF s = "r" THEN 8 ELSE 0
      [] b = "senior"   -> IF s = "r" THEN 10 ELSE IF s = "c" THEN 1 ELSE 0
      [] b = "staff"    -> IF s = "r" THEN 12 ELSE IF s = "c" THEN 2 ELSE 0
      [] b = "techlist" ->
            IF s = "docker" THEN 3
            ELSE IF s \in {"kubernetes", "go"} THEN 2
            ELSE IF s = "c" THEN 11
            ELSE IF s = "r" THEN 21
            ELSE IF s \in TechOnce \cup {"java", "sql"} THEN 1
            ELSE 0
      [] OTHER          -> 0

\* phrase.count(s)
PhraseCount(p, s) ==
    IF s = p THEN 1
    ELSE IF p = "machine learning" /\ s \in {"c", "r"} THEN 1
    ELSE IF p = "postgresql" /\ s \in {"r", "sql"} THEN 1
    ELSE 0

\* text.lower().count(s): no occurrence spans the ". " between the parts.
Count(t, s) ==
    BodyCount(t.body, s)
        + SumOver(Phrases, [p \in Phrases |-> t.mentions[p] * PhraseCount(p, s)])

\* `s in text.lower()`
Contains(t, s) == Count(t, s) > 0

\* The vocabulary strings that occur in a body, and in a phrase.
BodyVocabulary(b) ==
    CASE b \in {"short", "prose", "toolbox"} \cup DatedBodies -> {"r"}
      [] b \in {"resume"} \cup RequiringBodies -> {"r", "c"}
      [] b = "techlist" ->
            TechOnce \cup {"docker", "kubernetes", "go", "c", "r", "java", "sql"}
      [] OTHER          -> {}

PhraseVocabulary(p) ==
    CASE p = "machine learning" -> {p, "c", "r"}
      [] p = "postgresql"       -> {p, "r", "sql"}
      [] OTHER                  -> {p}

\* [s for s in vocabulary if s in text.lower()]
Scan(vocabulary, t) ==
    vocabulary \cap
        (BodyVocabulary(t.body) \cup UNION {PhraseVocabulary(p) : p \in Mentioned(t)})

----------------------------------------------------------------------------
(* The external NLP services *)

\* What SkillNER's annotate returns for a text.  Full matches are the
\* one-word skills written out in the text (kafka is in the taxonomy and
\* not in COMMON_SKILLS); n-gram matches carry a score in percent.
BodyFullMatches(b) ==
    IF b = "techlist" THEN TechOnce \cup {"docker", "kubernetes", "kafka"}
    ELSE IF b = "resume" THEN {"databases"}
    ELSE {}

annotate(t) ==
    [full_matches |->
        BodyFullMatches(t.body) \cup (Mentioned(t) \ {"machine learning"}),
     ngram_scored |->
        IF "machine learning" \in Mentioned(t)
        THEN {[doc_node_value |-> "machine learning", score |-> 95],
              [doc_node_value |-> "learning", score |-> 60]}
        ELSE {}]

\* spaCy's entities labelled PERSON, ORG or PRODUCT.
Entities(t) ==
    (Mentioned(t) \cap {"python", "postgresql"})
        \cup (IF t.body = "resume" THEN {"John Doe"} ELSE {})
        \cup (IF t.body = "techlist" THEN {"Docker"} ELSE {})

----------------------------------------------------------------------------
(* suggest_skills.py *)

\* re.sub(r'[^\w\s]', ' ', text.lower()).strip()
clean_phrase(s) ==
    CASE s = "John Doe" -> "john doe"
      [] s = "Docker"   -> "docker"
      [] s = "node.js"  -> "node js"
      [] s = "c++"      -> "c"
      [] s = "-"        -> ""
      [] OTHER          -> s

\* The tokens the two skill_patterns capture, after splitting on , / & +.
LongToken ==
    "dependable delivery flow with steady weekly handoffs while keeping the whole team well informed about due dates and duties"

PatternCaptures(t) ==
    IF t.body = "resume" THEN {"databases", "testing"}
    ELSE IF t.body = "toolbox" THEN {"-", LongToken}
    ELSE {}

\* extract_skills(text) with the global skill_extractor in state `extractor`;
\* `fail` says whether annotate raises if it is called.  Returns the skill
\* set, the global's new state, whether annotate was called and whether it
\* raised.
extract_skills(t, extractor, fail) ==
    IF Falsy(t) \/ ~IsStr(t) \/ Blank(t)
    THEN [skills |-> {}, extractor |-> extractor,
          annotated |-> FALSE, failed |-> FALSE]
    ELSE
      LET tried    == extractor = "primary"
          ok       == tried /\ ~fail
          after    == IF tried /\ fail THEN "disabled" ELSE extractor
          a        == annotate(t)
          full     == {x \in {clean_phrase(v) : v \in a.full_matches} :
                          x # "" /\ Len(x) <= 100}
          ngram    == {x \in {clean_phrase(m.doc_node_value) :
                                 m \in {n \in a.ngram_scored : n.score > 70}} :
                          x # "" /\ Len(x) <= 100}
          primary  == IF ok THEN full \cup ngram ELSE {}
          ner      == {x \in {clean_phrase(e) : e \in Entities(t)} :
                          x # "" /\ Len(x) <= 100 /\ x \in COMMON_SKILLS}
          scan     == Scan(COMMON_SKILLS, t)
          fallback == IF after = "disabled" THEN ner \cup scan ELSE {}
          pattern  == {clean_phrase(x) : x \in PatternCaptures(t)}
      IN [skills |-> primary \cup fallback \cup pattern, extractor |-> after,
          annotated |-> tried, failed |-> tried /\ fail]

----------------------------------------------------------------------------
(* Resume structures *)

\* An element dict: its "type" and its "content" (has_content is FALSE when
\* the value is None).  Contents are literal strings; what lower(), split()
\* and the regular expressions give on them is tabulated.
DEFAULT_FONT_SIZE == 11

Elem(type, content) ==
    [type |-> type, content |-> content, has_content |-> TRUE,
     font_size |-> DEFAULT_FONT_SIZE]
ElemNone(type) ==
    [type |-> type, content |-> "", has_content |-> FALSE,
     font_size |-> DEFAULT_FONT_SIZE]

H_name  == Elem("heading", "John Doe")
T_email == Elem("text", "john@email.com")
H_exp   == Elem("heading", "Experience")
B_mail  == Elem("bullet", "Emailed john@email.com weekly")
Tbl     == Elem("table", "Skill | Years")
Img     == ElemNone("image")
H_none  == ElemNone("heading")
B_none  == ElemNone("bullet")
H_edu   == Elem("heading", "Education")
T_small == [Elem("text", "fine print") EXCEPT !.font_size = 8]
H_large == [Elem("heading", "John Doe") EXCEPT !.font_size = 18]
H_mixed == Elem("heading", "Work history")

ElementPool == {H_name, T_email, H_exp, B_mail, Tbl}

\* The structure that is no list at all.
NotAList == <<ElemNone("notalist")>>

IsList(s) == s # NotAList

RECURSIVE SeqsUpTo(_, _)
SeqsUpTo(S, n) ==
    IF n = 0 THEN {<<>>}
    ELSE LET shorter == SeqsUpTo(S, n - 1)
         IN shorter \cup {Append(q, x) : q \in {r \in shorter : Len(r) = n - 1}, x \in S}

\* Every list of pool elements, and the lists with an element outside the
\* data model (an image, a None content).
MalformedStructures ==
    {<<H_none>>, <<H_name, T_email, H_none>>, <<H_name, T_email, B_none>>}

\* Lists whose only heading has a lowercase word.
MixedCaseStructures ==
    {<<H_mixed>>, <<H_mixed, T_email>>, <<H_mixed, B_mail>>}

Structures ==
    SeqsUpTo(ElementPool, MaxElems)
        \cup {NotAList, <<H_name, T_email, Img>>} \cup MalformedStructures
        \cup MixedCaseStructures

\* An Experience section with more bullets than the bullet balance rewards,
\* alone and followed by a second container heading.
SixBullets == <<H_exp, B_mail, B_mail, B_mail, B_mail, B_mail, B_mail>>

BulletHeavyStructures == {SixBullets, Append(SixBullets, H_edu)}

\* The same section heading twice, each time with bullets beneath it.
RepeatedSections ==
    {<<H_exp, B_mail, H_exp, B_mail>>,
     <<H_exp, B_mail, B_mail, B_mail, H_exp, B_mail, B_mail, B_mail>>}

\* A few structures for the runs that vary the texts: one that passes the
\* gate, one that passes it with a rewarded section, one that fails it.
FewStructures ==
    {<<H_name, T_email>>, <<H_exp, B_mail, B_mail>>, <<H_name>>, <<>>,
     <<H_name, T_email, B_none>>} \cup BulletHeavyStructures
        \cup RepeatedSections

\* Every element is a ContentElement of the data model: content is text.
WellFormed(s) ==
    IsList(s) /\ \A i \in 1..Len(s) : s[i].has_content \/ s[i].type = "image"

\* str.lower()
lower(c) ==
    CASE c = "John Doe"   -> "john doe"
      [] c = "Experience" -> "experience"
      [] c = "Education"  -> "education"
      [] c = "Emailed john@email.com weekly" -> "emailed john@email.com weekly"
      [] c = "Skill | Years" -> "skill | years"
      [] c = "Work history" -> "work history"
      [] OTHER -> c

\* str.split()
split(c) ==
    CASE c = ""           -> <<>>
      [] c = "John Doe"   -> <<"John", "Doe">>
      [] c = "john doe"   -> <<"john", "doe">>
      [] c = "fine print" -> <<"fine", "print">>
      [] c = "Emailed john@email.com weekly" -> <<"Emailed", "john@email.com", "weekly">>
      [] c = "emailed john@email.com weekly" -> <<"emailed", "john@email.com", "weekly">>
      [] c = "Skill | Years" -> <<"Skill", "|", "Years">>
      [] c = "Work history" -> <<"Work", "history">>
      [] c = "work history" -> <<"work", "history">>
      [] OTHER -> <<c>>

\* word[0].isupper()
first_isupper(w) ==
    w \in {"John", "Doe", "Experience", "Education", "Emailed", "Skill", "Years",
           "Work"}

\* re.search of the gate's four patterns.
email_regex(c)    == c \in {"john@email.com", "Emailed john@email.com weekly"}
phone_regex(c)    == c \in {"(555) 123-4567"}
linkedin_regex(c) == c \in {"linkedin.com/in/johndoe"}
github_regex(c)   == c \in {"github.com/johndoe"}

\* spaCy: the first non-punctuation token of the content is a VERB.
StartsWithVerb(c) == c \in {"Emailed john@email.com weekly"}

----------------------------------------------------------------------------
(* ATSCalculator: the disqualifier gate *)

TablesReason  == "Resume contains tables or images (not ATS-friendly)"
ContactReason == "Missing minimal contact information (name + email + phone or profile)"

\* (it.get("content") or "").strip()
GateContent(e) == IF e.has_content THEN e.content ELSE ""

GateHasNameMutEvery(s) ==
    \E i \in 1..Len(s) :
        /\ s[i].type = "heading"
        /\ GateContent(s[i]) # ""
        /\ LET parts == split(GateContent(s[i]))
           IN /\ 1 <= Len(parts) /\ Len(parts) <= 5
              /\ \A k \in 1..Len(parts) : first_isupper(parts[k])

\* has_name: a heading of 1-5 words, at least one of them capitalised
GateHasName(s) ==
    \E i \in 1..Len(s) :
        /\ s[i].type = "heading"
        /\ GateContent(s[i]) # ""
        /\ LET parts == split(GateContent(s[i]))
           IN /\ 1 <= Len(parts) /\ Len(parts) <= 5
              /\ \E k \in 1..Len(parts) : first_isupper(parts[k])

GateHasEmail(s) == \E i \in 1..Len(s) : email_regex(GateContent(s[i]))

GateHasPhoneOrProfile(s) ==
    \E i \in 1..Len(s) :
        \/ phone_regex(GateContent(s[i]))
        \/ linkedin_regex(lower(GateContent(s[i])))
        \/ github_regex(lower(GateContent(s[i])))

GateMutIgnoreTables(s) ==
    IF \E i \in 1..Len(s) : s[i].type = "heading" /\ ~s[i].has_content
    THEN [raised |-> TRUE, ok |-> FALSE, reason |-> "AttributeError"]
    ELSE IF ~(GateHasName(s) /\ (GateHasEmail(s) \/ GateHasPhoneOrProfile(s)))
    THEN [raised |-> FALSE, ok |-> FALSE, reason |-> ContactReason]
    ELSE [raised |-> FALSE, ok |-> TRUE, reason |-> ""]

\* _check_disqualifiers(resume_structure) of a list: (ok, reason), or the
\* AttributeError of None.strip() where the headings are collected.
_check_disqualifiers(s) ==
    IF \E i \in 1..Len(s) : s[i].type \in {"table", "image"}
    THEN [raised |-> FALSE, ok |-> FALSE, reason |-> TablesReason]
    ELSE IF \E i \in 1..Len(s) : s[i].type = "heading" /\ ~s[i].has_content
    THEN [raised |-> TRUE, ok |-> FALSE, reason |-> "AttributeError"]
    ELSE IF ~(GateHasName(s) /\ (GateHasEmail(s) \/ GateHasPhoneOrProfile(s)))
    THEN [raised |-> FALSE, ok |-> FALSE, reason |-> ContactReason]
    ELSE [raised |-> FALSE, ok |-> TRUE, reason |-> ""]

----------------------------------------------------------------------------
(* ATSCalculator: skills, content and formatting *)

\* Scores are integers in units of 1/Unit; a weight is given in percent.
Unit == 60 * 100
Weighted(pct, num, den) == (pct * (Unit \div 100) * num) \div den

SKILL_COVERAGE_WEIGHT    == 25
TFIDF_SIM_WEIGHT         == 20
KEYWORD_MATCH_WEIGHT     == 15
SECTIONS_WEIGHT          == 20
BULLETS_WEIGHT           == 10
READABILITY_VERBS_WEIGHT == 10

IMPORTANT_KEYWORDS ==
    {"experience", "education", "skills", "projects", "certifications",
     "leadership", "achievements", "technical", "professional", "summary"}

\* str.lower().strip() of a taxonomy match
lower_strip(v) == IF v = "Docker" THEN "docker" ELSE v

AtsExtractMutNoDemotion(t, extractor, fail) ==
    IF Falsy(t) \/ Blank(t)
    THEN [skills |-> {}, extractor |-> extractor,
          annotated |-> FALSE, failed |-> FALSE]
    ELSE
      LET tried == extractor = "primary"
          a     == annotate(t)
      IN [skills |-> IF tried /\ ~fail
                     THEN {lower_strip(v) : v \in a.full_matches}
                            \cup {lower_strip(m.doc_node_value) :
                                     m \in {n \in a.ngram_scored : n.score > 70}}
                     ELSE Scan(ATS_COMMON_SKILLS, t),
          extractor |-> extractor,
          annotated |-> tried, failed |-> tried /\ fail]

\* ATSCalculator._extract_skills(text) with self.skill_extractor in state
\* `extractor`; `fail` says whether annotate raises if it is called.
_extract_skills(t, extractor, fail) ==
    IF Falsy(t) \/ Blank(t)
    THEN [skills |-> {}, extractor |-> extractor,
          annotated |-> FALSE, failed |-> FALSE]
    ELSE
      LET tried    == extractor = "primary"
          ok       == tried /\ ~fail
          after    == IF tried /\ fail THEN "disabled" ELSE extractor
          a        == annotate(t)
          full     == {lower_strip(v) : v \in a.full_matches}
          ngram    == {lower_strip(m.doc_node_value) :
                          m \in {n \in a.ngram_scored : n.score > 70}}
          primary  == IF ok THEN full \cup ngram ELSE {}
          fallback == IF after = "disabled"
                      THEN Scan(ATS_COMMON_SKILLS, t)
                      ELSE {}
      IN [skills |-> primary \cup fallback, extractor |-> after,
          annotated |-> tried, failed |-> tried /\ fail]

\* What the regular expressions of the calculator find in a body.
BodyKeywords(b) ==
    IF b = "resume" THEN {"experience", "education", "skills"}
    ELSE IF b \in RequiringBodies THEN {"experience"}
    ELSE {}
BodyRequiredYears(b) ==
    CASE b = "resume" -> {3}
      [] b = "senior" -> {41}
      [] b = "staff"  -> {2, 40}
      [] OTHER        -> {}
BodyYears(b) ==
    CASE b = "resume"  -> {2016, 2020}
      [] b = "junior"  -> {2019, 2020}
      [] b = "veteran" -> {1975, 2020}
      [] b = "oneyear" -> {2020}
      [] OTHER         -> {}

SetMax(S) == CHOOSE x \in S : \A y \in S : y <= x
SetMin(S) == CHOOSE x \in S : \A y \in S : x <= y

_extract_experience_requirements(t) ==
    LET nums == BodyRequiredYears(_normalize(t).body)
    IN IF nums # {} THEN SetMax(nums) ELSE 0

EstimateYearsMutNoCap(t) ==
    LET yrs == BodyYears(t.body)
    IN IF Cardinality(yrs) >= 2 THEN SetMax(yrs) - SetMin(yrs) ELSE 0

_estimate_years_from_resume(t) ==
    LET yrs == BodyYears(t.body)
    IN IF Cardinality(yrs) >= 2
       THEN Max(0, Min(40, SetMax(yrs) - SetMin(yrs)))
       ELSE 0

_experience_bonus(required, t) ==
    IF required <= 0 THEN 0
    ELSE IF _estimate_years_from_resume(t) >= required THEN Weighted(2, 1, 1)
    ELSE 0

\* TfidfVectorizer(ngram_range=(1, 2), stop_words="english", min_df=1,
\* max_df=0.9) on the two documents: a term is dropped when it occurs in
\* more than 0.9 * 2 documents, that is in both.
\* The terms of a document: its phrases, and the words of its body taken as
\* one term.
Terms(t) ==
    (IF t.body \in {"short", "prose", "resume", "techlist", "toolbox"}
                        \cup DatedBodies \cup RequiringBodies
     THEN {t.body} ELSE {})
        \cup Mentioned(t)

TfidfVocabulary(jd, r) ==
    LET docs == <<jd, r>>
    IN {w \in Terms(jd) \cup Terms(r) :
          10 * Cardinality({i \in 1..2 : w \in Terms(docs[i])}) <= 9 * 2}

\* The cosine of the two rows, in units: 0 when they share no kept term or
\* when fit_transform raises on an empty vocabulary (the except branch).
TfidfSimilarity(jd, r) ==
    LET vocab  == TfidfVocabulary(jd, r)
        shared == {w \in vocab : w \in Terms(jd) /\ w \in Terms(r)}
    IN IF vocab = {} \/ shared = {} THEN 0 ELSE Unit

SkillCoverageMutMissing(jd_skills, resume_skills) ==
    IF jd_skills = {} THEN [num |-> 0, den |-> 1]
    ELSE [num |-> Cardinality(jd_skills \ resume_skills),
          den |-> Cardinality(jd_skills)]

\* skill_coverage as a fraction
SkillCoverage(jd_skills, resume_skills) ==
    IF jd_skills = {} THEN [num |-> 0, den |-> 1]
    ELSE [num |-> Cardinality(jd_skills \cap resume_skills),
          den |-> Cardinality(jd_skills)]

ContentOfMutNoKeywords(cov, sim, keywords, bonus) ==
    LET skill_component   == Weighted(SKILL_COVERAGE_WEIGHT, cov.num, cov.den)
        tfidf_component   == (TFIDF_SIM_WEIGHT * sim) \div 100
    IN Max(0, Min(Weighted(60, 1, 1), skill_component + tfidf_component + bonus))

\* total_content of the four components, clamped to [0, 0.60]
ContentOf(cov, sim, keywords, bonus) ==
    LET skill_component   == Weighted(SKILL_COVERAGE_WEIGHT, cov.num, cov.den)
        tfidf_component   == (TFIDF_SIM_WEIGHT * sim) \div 100
        keyword_component == Weighted(KEYWORD_MATCH_WEIGHT, keywords,
                                      Cardinality(IMPORTANT_KEYWORDS))
    IN Max(0, Min(Weighted(60, 1, 1),
                  skill_component + tfidf_component + keyword_component + bonus))

\* _content_score(resume_text): the score, the signals it is made of and
\* what the skill extraction did to self.skill_extractor.
ContentSignals(x, cov, sim, keywords, bonus) ==
    [score |-> ContentOf(cov, sim, keywords, bonus),
     resume_skills |-> x.skills, coverage |-> cov, sim |-> sim,
     keywords |-> keywords, bonus |-> bonus,
     extractor |-> x.extractor, annotated |-> x.annotated, failed |-> x.failed]

ContentWith(c, resume_norm, x) ==
    ContentSignals(x, SkillCoverage(c.jd_skills, x.skills),
                   TfidfSimilarity(c.jd_text, resume_norm),
                   Cardinality(BodyKeywords(resume_norm.body)),
                   _experience_bonus(c.jd_required_years, resume_norm))

ContentOn(c, resume_norm, fail) ==
    ContentWith(c, resume_norm, _extract_skills(resume_norm, c.skill_extractor, fail))

_content_score(c, t, fail) == ContentOn(c, _normalize(t), fail)

\* spaCy's sentences and their non-punctuation tokens: those of the body,
\* and one sentence per mention.
BodySents(b) ==
    CASE b \in {"short", "noise", "prose"} -> 1
      [] b = "resume"   -> 3
      [] b \in {"techlist", "toolbox"} \cup DatedBodies \cup RequiringBodies -> 2
      [] OTHER          -> 0
BodyTokens(b) ==
    CASE b = "short"    -> 2
      [] b = "prose"    -> 14
      [] b = "resume"   -> 36
      [] b = "techlist" -> 50
      [] b \in DatedBodies -> 17
      [] b = "senior"   -> 19
      [] b = "staff"    -> 24
      [] b = "toolbox"  -> 34
      [] OTHER          -> 0
PhraseWords(p) == IF p = "machine learning" THEN 2 ELSE 1

NumSents(t)  == BodySents(t.body) + NumMentions(t)
NumTokens(t) ==
    BodyTokens(t.body)
        + SumOver(Phrases, [p \in Phrases |-> t.mentions[p] * PhraseWords(p)])

Containers == {"experience", "projects", "project", "education"}

\* The Counter of the bullet walk; -1 stands for a key that is not in it.
RECURSIVE BulletWalk(_, _, _, _)
BulletWalk(s, i, current, counts) ==
    IF i > Len(s) THEN counts
    ELSE IF s[i].type = "heading"
    THEN LET h   == lower(s[i].content)
             cur == IF h \in Containers THEN h ELSE ""
         IN BulletWalk(s, i + 1, cur,
                IF cur # "" /\ counts[cur] = -1
                THEN [counts EXCEPT ![cur] = 0] ELSE counts)
    ELSE IF s[i].type = "bullet" /\ current # ""
    THEN BulletWalk(s, i + 1, current, [counts EXCEPT ![current] = @ + 1])
    ELSE BulletWalk(s, i + 1, current, counts)

bullets_by_section(s) == BulletWalk(s, 1, "", [k \in Containers |-> -1])

BulletComponentMutNoPenalty(s) ==
    LET counts == bullets_by_section(s)
        reward == [k \in Containers |->
                      IF counts[k] >= 2 THEN Weighted(BULLETS_WEIGHT, 1, 4) ELSE 0]
    IN Max(0, Min(Weighted(BULLETS_WEIGHT, 1, 1), SumOver(Containers, reward)))

BulletComponent(s) ==
    LET counts == bullets_by_section(s)
        reward == [k \in Containers |->
                      IF counts[k] >= 2 THEN Weighted(BULLETS_WEIGHT, 1, 4) ELSE 0]
        penalty == [k \in Containers |->
                      IF counts[k] > 4 THEN Weighted(BULLETS_WEIGHT, 1, 10) ELSE 0]
    IN Max(0, Min(Weighted(BULLETS_WEIGHT, 1, 1),
                  SumOver(Containers, reward) - SumOver(Containers, penalty)))

SectionsComponent(s) ==
    LET required == {"skills", "experience", "education"}
        present  == {lower(s[i].content) : i \in {j \in 1..Len(s) : s[j].type = "heading"}}
                        \cap required
    IN Weighted(SECTIONS_WEIGHT, Cardinality(present), Cardinality(required))

ReadComponent(t, s) ==
    LET moderate == /\ NumSents(t) > 0
                    /\ 10 * NumSents(t) <= NumTokens(t)
                    /\ NumTokens(t) <= 30 * NumSents(t)
        verb_starts == Cardinality({i \in 1..Len(s) :
                           s[i].type = "bullet" /\ StartsWithVerb(s[i].content)})
    IN Max(0, Min(Weighted(READABILITY_VERBS_WEIGHT, 1, 1),
                  (IF moderate THEN Weighted(READABILITY_VERBS_WEIGHT, 1, 2) ELSE 0)
                  + (IF verb_starts >= 3
                     THEN Weighted(READABILITY_VERBS_WEIGHT, 1, 2) ELSE 0)))

\* _formatting_score(resume_text, resume_structure).  A heading or a bullet
\* whose content is None raises (None.lower(), nlp(None)).
_formatting_score(t, s) ==
    IF \E i \in 1..Len(s) : s[i].type \in {"heading", "bullet"} /\ ~s[i].has_content
    THEN [raised |-> TRUE, score |-> 0]
    ELSE [raised |-> FALSE,
          score |-> Max(0, Min(Weighted(40, 1, 1),
                        SectionsComponent(s) + BulletComponent(s) + ReadComponent(t, s)))]

\* int(round(x * 100)) of a score in units, ties to the even integer.
RoundPct(x) ==
    LET q == (x * 100) \div Unit
        r == (x * 100) % Unit
    IN IF 2 * r > Unit \/ (2 * r = Unit /\ q % 2 = 1) THEN q + 1 ELSE q

----------------------------------------------------------------------------
(* ATSCalculator.total_score *)

NoSignals == [content |-> 0, formatting |-> 0, resume_skills |-> {},
              coverage |-> [num |-> 0, den |-> 1], sim |-> 0, keywords |-> 0,
              bonus |-> 0]

\* An outcome: the value returned (raised is TRUE when an exception left the
\* method instead), the steps that ran, the entry written to debug_details
\* (the dict is only ever written), and the state of self.skill_extractor.
Outcome(c, ret, raised, steps, key, value) ==
    [ret |-> ret, raised |-> raised, steps |-> steps,
     debug |-> [key |-> key, value |-> value],
     extractor |-> c.skill_extractor, annotated |-> FALSE, failed |-> FALSE,
     signals |-> NoSignals]

UptoGate == <<"validate_text", "validate_structure", "gate">>

\* The try block: content, formatting, rounding; any exception gives 0.
Scored(cs, fs) ==
    [ret |-> IF fs.raised THEN 0 ELSE RoundPct(cs.score + fs.score),
     raised |-> FALSE,
     steps |-> UptoGate \o <<"content", "formatting">>,
     debug |-> IF fs.raised
               THEN [key |-> "error", value |-> "ATS computation error"]
               ELSE [key |-> "final_score", value |-> "final_pct"],
     extractor |-> cs.extractor, annotated |-> cs.annotated,
     failed |-> cs.failed,
     signals |-> [content |-> cs.score, formatting |-> fs.score,
                  resume_skills |-> cs.resume_skills,
                  coverage |-> cs.coverage, sim |-> cs.sim,
                  keywords |-> cs.keywords, bonus |-> cs.bonus]]

AfterGateMutPenalty(c, t, s, fail, g) ==
    IF g.raised
    THEN Outcome(c, 0, TRUE, UptoGate, "", "")
    ELSE Scored(_content_score(c, t, fail), _formatting_score(t, s))

AfterGate(c, t, s, fail, g) ==
    IF g.raised
    THEN Outcome(c, 0, TRUE, UptoGate, "", "")
    ELSE IF ~g.ok
    THEN Outcome(c, 0, FALSE, UptoGate, "disqualified", g.reason)
    ELSE Scored(_content_score(c, t, fail), _formatting_score(t, s))

AfterValidation(c, t, s, fail, v) ==
    IF v # "ok"
    THEN Outcome(c, 0, FALSE, <<"validate_text">>, "error", v)
    ELSE IF ~IsList(s) \/ s = <<>>
    THEN Outcome(c, 0, FALSE, <<"validate_text", "validate_structure">>,
                 "error", "Invalid or empty resume structure")
    ELSE AfterGate(c, t, s, fail, _check_disqualifiers(s))

total_score(c, t, s, fail) == AfterValidation(c, t, s, fail, _validate_text(t))

----------------------------------------------------------------------------
(* suggest_skills.get_missing_skills *)

BeforeMutAlphabetical(jd, a, b) == AlphaIndex(a) < AlphaIndex(b)

\* The key of sorted(): (-importance, skill.lower()).
Before(jd, a, b) ==
    \/ Count(jd, a) > Count(jd, b)
    \/ Count(jd, a) = Count(jd, b) /\ AlphaIndex(a) < AlphaIndex(b)

RECURSIVE SortedBy(_, _)
SortedBy(jd, S) ==
    IF S = {} THEN <<>>
    ELSE LET first == CHOOSE a \in S : \A b \in S \ {a} : Before(jd, a, b)
         IN <<first>> \o SortedBy(jd, S \ {first})

TakeMutTail(q, n) == SubSeq(q, Len(q) - Min(n, Len(q)) + 1, Len(q))

\* q[:n]
Take(q, n) == SubSeq(q, 1, Min(n, Len(q)))

TOP_SKILLS == 20

\* get_missing_skills(jd_text, resume_text) with the global in state
\* `extractor`; fail_jd and fail_resume say whether annotate raises in the
\* first and in the second extraction.
MissingOfMutNoLimit(jd, x1, x2) ==
    [ret |-> SortedBy(jd, (x1.skills \ x2.skills) \cap COMMON_SKILLS),
     raised |-> FALSE, extractor |-> x2.extractor,
     jd_skills |-> x1.skills, resume_skills |-> x2.skills,
     extractions |-> <<[annotated |-> x1.annotated, failed |-> x1.failed],
                       [annotated |-> x2.annotated, failed |-> x2.failed]>>]

MissingOf(jd, x1, x2) ==
    LET missing_skills   == x1.skills \ x2.skills
        filtered_missing == {k \in missing_skills :
                                k \in COMMON_SKILLS /\ Len(k) > 2}
        sorted_skills    == SortedBy(jd, filtered_missing)
    IN [ret |-> Take(sorted_skills, TOP_SKILLS), raised |-> FALSE,
        extractor |-> x2.extractor,
        jd_skills |-> x1.skills, resume_skills |-> x2.skills,
        extractions |-> <<[annotated |-> x1.annotated, failed |-> x1.failed],
                          [annotated |-> x2.annotated, failed |-> x2.failed]>>]

MissingAfterJD(jd, r, x1, fail_resume) ==
    MissingOf(jd, x1, extract_skills(r, x1.extractor, fail_resume))

get_missing_skills(jd, r, extractor, fail_jd, fail_resume) ==
    IF Falsy(jd) \/ Falsy(r)
    THEN [ret |-> <<>>, raised |-> FALSE, extractor |-> extractor,
          jd_skills |-> {}, resume_skills |-> {}, extractions |-> <<>>]
    ELSE MissingAfterJD(jd, r, extract_skills(jd, extractor, fail_jd), fail_resume)

----------------------------------------------------------------------------
(* restructure_advice.py *)

MIN_FONT_SIZE == 9
MAX_BULLETS_PER_SECTION == 5

Issue(issue, advice) == [issue |-> issue, advice |-> advice]

When(cond, issue) == IF cond THEN <<issue>> ELSE <<>>

\* What the advisor's regular expressions find in a body; the phrases hold
\* none of them.
BodyHasName(b)       == b = "resume"   \* first line: 2-4 capitalised words
BodyHasEmail(b)      == b = "resume"
BodyHasPhone(b)      == b = "resume"
BodyHasProfile(b)    == b = "resume"
BodySections(b) ==
    IF b = "resume" THEN {"experience", "education", "skills"}
    ELSE IF b \in RequiringBodies THEN {"experience"}
    ELSE {}
BodyHasActionVerb(b) == b = "resume"

\* The ValueError of the three text checks: not a string, or blank.
TextRejected(t) == ~IsStr(t) \/ Blank(t)

\* check_contact_info(resume_text): its issues, or the ValueError.
check_contact_info(t) ==
    IF TextRejected(t) THEN [raised |-> TRUE, issues |-> <<>>]
    ELSE
      [raised |-> FALSE,
       issues |->
          When(~BodyHasName(t.body),
               Issue("Missing or unclear name at the top of the resume",
                     "Add your full name prominently at the top of your resume."))
          \o When(~BodyHasEmail(t.body) /\ ~BodyHasPhone(t.body),
               Issue("Missing both email and phone number",
                     "Include at least one reliable contact method (email or phone)."))
          \o When(~BodyHasProfile(t.body),
               Issue("No professional profile links",
                     "Consider adding your LinkedIn profile or personal website."))]

\* str.title() of the three section names
title(n) ==
    CASE n = "experience" -> "Experience"
      [] n = "education"  -> "Education"
      [] OTHER            -> "Skills"

MissingSection(t, n) ==
    When(n \notin BodySections(t.body),
         Issue("Missing \"" \o title(n) \o "\" section",
               "Add a clearly labeled \"" \o title(n) \o "\" section."))

\* [item['content'].lower().strip() for item in resume_structure
\*  if item.get('type') == 'heading' and item.get('content')]
RECURSIVE Headings(_, _)
Headings(s, i) ==
    IF i > Len(s) THEN <<>>
    ELSE (IF s[i].type = "heading" /\ s[i].has_content /\ s[i].content # ""
          THEN <<lower(s[i].content)>> ELSE <<>>) \o Headings(s, i + 1)

LooksLikeName(h) ==
    LET name_parts == split(h)
    IN /\ 2 <= Len(name_parts) /\ Len(name_parts) <= 4
       /\ \A k \in 1..Len(name_parts) : first_isupper(name_parts[k])

\* check_sections(resume_text, resume_structure) of a list
check_sections(t, s) ==
    IF TextRejected(t) THEN [raised |-> TRUE, issues |-> <<>>]
    ELSE
      [raised |-> FALSE,
       issues |->
          MissingSection(t, "experience") \o MissingSection(t, "education")
          \o MissingSection(t, "skills")
          \o When(Headings(s, 1) # <<>> /\ ~LooksLikeName(Headings(s, 1)[1]),
               Issue("Name/contact information not at the top",
                     "Place your name and contact information at the top of the first page."))]

\* check_formatting(resume_structure) of a list
check_formatting(s) ==
    LET font_sizes == {s[i].font_size : i \in 1..Len(s)}
        min_size   == SetMin(font_sizes)
        max_size   == SetMax(font_sizes)
    IN When(font_sizes # {} /\ min_size < MIN_FONT_SIZE,
            Issue("Font size too small (" \o ToString(min_size) \o ".0pt)",
                  "Increase all text to at least " \o ToString(MIN_FONT_SIZE + 1)
                      \o "pt for better readability."))
       \o When(font_sizes # {} /\ max_size - min_size > 6,
            Issue("Inconsistent font sizes",
                  "Limit font size variations to 2-3 sizes for better visual hierarchy."))
       \o When(\E i \in 1..Len(s) : s[i].type = "table",
            Issue("Uses tables or columns",
                  "Avoid tables and columns as they may cause parsing issues with ATS."))
       \o When(\E i \in 1..Len(s) : s[i].type = "image",
            Issue("Contains images or graphics",
                  "Remove images, icons, and graphics as they are not ATS-friendly."))

\* `exp in heading` for the lowercased headings of the model
InHeading(exp, heading) ==
    exp = heading \/ (exp = "experience" /\ heading = "work experience")

Tracked(heading) ==
    \E exp \in {"experience", "work experience", "projects", "education"} :
        InHeading(exp, heading)

\* The walk that fills section_bullets: the keys in insertion order and the
\* count of each; a heading seen again sets its count back to 0.
RECURSIVE SectionWalk(_, _, _, _)
SectionWalk(s, i, current_section, section_bullets) ==
    IF i > Len(s) THEN section_bullets
    ELSE IF s[i].type = "heading"
    THEN LET heading == lower(s[i].content)
         IN IF Tracked(heading)
            THEN SectionWalk(s, i + 1, heading,
                    [keys  |-> IF heading \in Range(section_bullets.keys)
                               THEN section_bullets.keys
                               ELSE Append(section_bullets.keys, heading),
                     count |-> [k \in DOMAIN section_bullets.count \cup {heading} |->
                                   IF k = heading THEN 0 ELSE section_bullets.count[k]]])
            ELSE SectionWalk(s, i + 1, "", section_bullets)
    ELSE IF s[i].type = "bullet" /\ current_section # ""
    THEN SectionWalk(s, i + 1, current_section,
            [section_bullets EXCEPT !.count[current_section] = @ + 1])
    ELSE SectionWalk(s, i + 1, current_section, section_bullets)

RECURSIVE BulletIssues(_, _)
BulletIssues(section_bullets, i) ==
    IF i > Len(section_bullets.keys) THEN <<>>
    ELSE
      LET section_name == section_bullets.keys[i]
          bullet_count == section_bullets.count[section_name]
      IN (IF bullet_count = 0
             /\ \E exp \in {"experience", "work experience"} : InHeading(exp, section_name)
          THEN <<Issue("No bullet points in \"" \o section_name \o "\" section",
                       "Use 3-5 bullet points per position to highlight achievements.")>>
          ELSE IF bullet_count > MAX_BULLETS_PER_SECTION
          THEN <<Issue("Too many bullet points (" \o ToString(bullet_count)
                           \o ") in \"" \o section_name \o "\"",
                       "Limit to " \o ToString(MAX_BULLETS_PER_SECTION)
                           \o " bullet points per position for better readability.")>>
          ELSE <<>>)
         \o BulletIssues(section_bullets, i + 1)

ContentError ==
    Issue("Error analyzing content quality",
          "Could not analyze resume content. Please check the format.")

\* check_content_quality(resume_text, resume_structure) of a list; a heading
\* whose content is None fails inside the try (None.lower()).
check_content_quality(t, s) ==
    IF TextRejected(t) THEN [raised |-> TRUE, issues |-> <<>>]
    ELSE IF \E i \in 1..Len(s) : s[i].type = "heading" /\ ~s[i].has_content
    THEN [raised |-> FALSE, issues |-> <<ContentError>>]
    ELSE
      [raised |-> FALSE,
       issues |->
          BulletIssues(SectionWalk(s, 1, "", [keys |-> <<>>, count |-> <<>>]), 1)
          \o When(~BodyHasActionVerb(t.body),
               Issue("Weak action verbs",
                     "Start bullet points with strong action verbs (e.g., \"Led\", \"Developed\", \"Increased\")."))]

InvalidText ==
    Issue("Invalid resume text", "Provide valid resume text for analysis.")

NoMajorIssues ==
    Issue("No major issues detected",
          "Your resume appears to be well-structured for ATS. Consider having it reviewed by a professional for further optimization.")

NoGroups == [contact |-> <<>>, sections |-> <<>>, formatting |-> <<>>, content |-> <<>>]

CombinedMutContentFirst(contact, sections, formatting, content) ==
    LET all_issues == content.issues \o contact.issues \o sections.issues \o formatting
    IN [ret |-> IF all_issues = <<>> THEN <<NoMajorIssues>> ELSE all_issues,
        raised |-> FALSE,
        groups |-> [contact |-> contact.issues, sections |-> sections.issues,
                    formatting |-> formatting, content |-> content.issues]]

Combined(contact, sections, formatting, content) ==
    LET all_issues == contact.issues \o sections.issues \o formatting \o content.issues
    IN [ret |-> IF all_issues = <<>> THEN <<NoMajorIssues>> ELSE all_issues,
        raised |-> FALSE,
        groups |-> [contact |-> contact.issues, sections |-> sections.issues,
                    formatting |-> formatting, content |-> content.issues]]

AnalyzeMutTextRulesOnly(t, s) ==
    IF Falsy(t) \/ ~IsStr(t)
    THEN [ret |-> <<InvalidText>>, raised |-> FALSE, groups |-> NoGroups]
    ELSE IF check_contact_info(t).raised
    THEN [ret |-> <<>>, raised |-> TRUE, groups |-> NoGroups]
    ELSE
      LET resume_structure == IF s = <<>> \/ ~IsList(s) THEN <<>> ELSE s
      IN Combined(check_contact_info(t),
                  IF resume_structure = <<>>
                  THEN [raised |-> FALSE, issues |-> <<>>]
                  ELSE check_sections(t, resume_structure),
                  check_formatting(resume_structure),
                  check_content_quality(t, resume_structure))

\* analyze_resume_structure(resume_text, resume_structure): the list it
\* returns, or raised when an exception leaves it (nothing is caught here).
analyze_resume_structure(t, s) ==
    IF Falsy(t) \/ ~IsStr(t)
    THEN [ret |-> <<InvalidText>>, raised |-> FALSE, groups |-> NoGroups]
    ELSE IF check_contact_info(t).raised
    THEN [ret |-> <<>>, raised |-> TRUE, groups |-> NoGroups]
    ELSE
      LET resume_structure == IF s = <<>> \/ ~IsList(s) THEN <<>> ELSE s
      IN Combined(check_contact_info(t), check_sections(t, resume_structure),
                  check_formatting(resume_structure),
                  check_content_quality(t, resume_structure))

----------------------------------------------------------------------------
(* main.py: rate limiting *)

RATE_LIMIT == 10
RATE_LIMIT_WINDOW == 60

\* The HTTP requests: request.client.host (None without a client) and the
\* X-Forwarded-For header (None when absent).
NoValue == "None"

HttpRequests ==
    {[client |-> "10.0.0.1", forwarded |-> NoValue],
     [client |-> NoValue, forwarded |-> "10.0.0.1, 172.16.0.9"],
     [client |-> NoValue, forwarded |-> NoValue],
     [client |-> "", forwarded |-> NoValue]}

\* A client that connects directly.
ProcessClient == [client |-> "10.0.0.1", forwarded |-> NoValue]

\* forwarded.split(",")[0].strip()
FirstForwarded(forwarded) ==
    IF forwarded = "10.0.0.1, 172.16.0.9" THEN "10.0.0.1" ELSE forwarded

\* The key of request_logs a request is counted under.
ClientIp(req) ==
    IF req.client = NoValue
    THEN IF req.forwarded # NoValue /\ req.forwarded # ""
         THEN FirstForwarded(req.forwarded) ELSE "unknown"
    ELSE IF req.client # "" THEN req.client ELSE "unknown"

IPs == {ClientIp(req) : req \in HttpRequests}

RecentMutKeepAll(log, window_start) == log

\* [t for t in log if t > window_start]
RECURSIVE Recent(_, _)
Recent(log, window_start) ==
    IF log = <<>> THEN <<>>
    ELSE (IF Head(log) > window_start THEN <<Head(log)>> ELSE <<>>)
            \o Recent(Tail(log), window_start)

\* check_rate_limit(request) at time current_time: the new request_logs,
\* whether the limit was found exceeded (the HTTPException was raised inside
\* the try block) and whether an exception left the function.  The
\* `except Exception` of the function catches the HTTPException it raises.
check_rate_limit(logs, req, current_time) ==
    LET ip           == ClientIp(req)
        window_start == current_time - RATE_LIMIT_WINDOW
        cleaned      == Recent(logs[ip], window_start)
        exceeded     == Len(cleaned) >= RATE_LIMIT
    IN [ip |-> ip,
        before |-> Len(cleaned),
        exceeded |-> exceeded,
        raised |-> FALSE,
        status |-> 0,
        logs |-> [logs EXCEPT ![ip] = IF exceeded THEN cleaned
                                      ELSE Append(cleaned, current_time)]]

----------------------------------------------------------------------------
(* The state machine *)

NoCalc == [built |-> FALSE]
NoRef  == [set |-> FALSE]
NoCall == [op |-> "none"]

Bare(b)         == [body |-> b, mentions |-> NoMentions]
With(b, phrases) == [body |-> b, mentions |-> [p \in Phrases |-> IF p \in phrases THEN 1 ELSE 0]]

\* The concurrent calls and a call that has not begun.
Threads == 1..NumThreads

Idle == [pc |-> "idle"]

\* A run works on one request, as /process does: the three inputs are drawn
\* when it starts.  The module has been imported: SkillExtractor(nlp,
\* SKILL_DB, PhraseMatcher) may have failed, which leaves the global None.
InitOn(jds, texts, structures) ==
    /\ request \in [jd : jds, text : texts, structure : structures]
    /\ ss_extractor \in {"primary", "disabled"}
    /\ calc = NoCalc
    /\ last = NoCall
    /\ failed = FALSE
    /\ ref = NoRef
    /\ request_logs = [ip \in IPs |-> <<>>]
    /\ now = 0
    /\ threads = [th \in Threads |-> Idle]

\* Each extraction of a call, with whether annotate had raised before it.
RECURSIVE Events(_, _, _)
Events(extractions, i, before) ==
    IF i > Len(extractions) THEN <<>>
    ELSE <<[annotated |-> extractions[i].annotated, failed_before |-> before]>>
            \o Events(extractions, i + 1, before \/ extractions[i].failed)

AnyFailed(extractions) == \E i \in 1..Len(extractions) : extractions[i].failed

\* main.py: the /process handler.

\* What can stop a request: the upload is refused by validate_file, the
\* parser fails, or the clock passes one of the four deadlines.
Hazards ==
    {"none", "no_filename", "bad_type", "too_large", "too_long", "parse_error",
     "timeout_parsing", "timeout_skills", "timeout_score", "timeout_advice"}

AnalysisHazards == {"none", "timeout_score", "timeout_advice"}

\* Whether annotate raises in each skill extraction of the request, and
\* whether SkillExtractor(...) can be built in ATSCalculator.__init__.
AnnotateFailures ==
    [gap_jd : BOOLEAN, gap_resume : BOOLEAN, init_ok : BOOLEAN,
     jd : BOOLEAN, resume : BOOLEAN]

NoAnnotateFailure ==
    [gap_jd |-> FALSE, gap_resume |-> FALSE, init_ok |-> TRUE,
     jd |-> FALSE, resume |-> FALSE]

\* ats = ATSCalculator(jd_text): the calculator, or the ValueError of an
\* invalid job description.
ATSCalculator(jd, init_ok, fail) ==
    IF _validate_text(jd) # "ok"
    THEN [raised |-> TRUE, failed |-> FALSE, calc |-> NoCalc]
    ELSE (LET x == _extract_skills(_normalize(jd),
                                   IF init_ok THEN "primary" ELSE "disabled", fail)
          IN [raised |-> FALSE, failed |-> x.failed,
              calc |-> [built |-> TRUE, jd_text |-> _normalize(jd),
                        jd_skills |-> x.skills,
                        jd_required_years |->
                            _extract_experience_requirements(_normalize(jd)),
                        skill_extractor |-> x.extractor]])

JDProvidedMutTruthy(jd) == ~Falsy(jd)

\* `jd_text and jd_text.strip()`
JDProvided(jd) == ~Falsy(jd) /\ ~Blank(jd)

\* The response of a request that got through: AnalysisResponse(success=True, ...)
Response(logs, gap, ats_score, issues, ran, annotate_failed) ==
    [status |-> 200, success |-> TRUE, ats_score |-> ats_score,
     suggested_skills |-> gap.ret, improvement_recommendation |-> issues,
     ran |-> ran, logs |-> logs, extractor |-> gap.extractor,
     annotate_failed |-> annotate_failed]

\* A request ended by an HTTPException before the analysis.
Refused(logs, extractor, code) ==
    [status |-> code, success |-> FALSE, ats_score |-> 0,
     suggested_skills |-> <<>>, improvement_recommendation |-> <<>>,
     ran |-> <<>>, logs |-> logs, extractor |-> extractor,
     annotate_failed |-> FALSE]

NoGap(extractor) == [ret |-> <<>>, extractor |-> extractor, extractions |-> <<>>]

\* The analysis from the structural advice on (lines 462-467).
ProcessAdvice(logs, hazard, text, s, gap, failed_before, score, ran) ==
    IF hazard = "timeout_advice"
    THEN Response(logs, gap, score, <<>>, ran, failed_before)
    ELSE (LET a == analyze_resume_structure(text, s)
          IN Response(logs, gap, score, IF a.raised THEN <<>> ELSE a.ret,
                      Append(ran, "analyze_resume_structure"), failed_before))

ProcessScoreMutFailsRequest(logs, hazard, jd, text, s, fails, gap, failed_before, ran) ==
    IF hazard = "timeout_score"
    THEN Response(logs, gap, 0, <<>>, ran, failed_before)
    ELSE (LET ats == ATSCalculator(jd, fails.init_ok, fails.jd)
          IN IF ats.raised
             THEN Refused(logs, gap.extractor, 500)
             ELSE (LET o == total_score(ats.calc, text, s, fails.resume)
                   IN IF o.raised
                      THEN Response(logs, gap, 0, <<>>,
                                    ran \o <<"ATSCalculator", "total_score">>,
                                    failed_before \/ ats.failed)
                      ELSE ProcessAdvice(logs, hazard, text, s, gap,
                                         failed_before \/ ats.failed \/ o.failed,
                                         o.ret,
                                         ran \o <<"ATSCalculator", "total_score">>)))

\* The analysis from the ATS score on (lines 454-467): an exception of the
\* constructor or of total_score ends the analysis with the values so far.
ProcessScore(logs, hazard, jd, text, s, fails, gap, failed_before, ran) ==
    IF hazard = "timeout_score"
    THEN Response(logs, gap, 0, <<>>, ran, failed_before)
    ELSE (LET ats == ATSCalculator(jd, fails.init_ok, fails.jd)
          IN IF ats.raised
             THEN Response(logs, gap, 0, <<>>, Append(ran, "ATSCalculator"),
                           failed_before)
             ELSE (LET o == total_score(ats.calc, text, s, fails.resume)
                   IN IF o.raised
                      THEN Response(logs, gap, 0, <<>>,
                                    ran \o <<"ATSCalculator", "total_score">>,
                                    failed_before \/ ats.failed)
                      ELSE ProcessAdvice(logs, hazard, text, s, gap,
                                         failed_before \/ ats.failed \/ o.failed,
                                         o.ret,
                                         ran \o <<"ATSCalculator", "total_score">>)))

\* process_resume_and_jd: the request `req` arrives at `current_time` with a
\* job description and an upload that parses to (text, s).
process_resume_and_jd(logs, extractor, req, current_time, hazard, jd, text, s, fails) ==
    LET limited == check_rate_limit(logs, req, current_time).logs
    IN IF hazard \in {"no_filename", "bad_type", "too_long", "parse_error"}
       THEN Refused(limited, extractor, 400)
       ELSE IF hazard = "too_large" THEN Refused(limited, extractor, 413)
       ELSE IF hazard = "timeout_parsing" THEN Refused(limited, extractor, 408)
       ELSE IF ~JDProvided(jd) \/ hazard = "timeout_skills"
       THEN Response(limited, NoGap(extractor), 0, <<>>, <<>>, FALSE)
       ELSE (LET gap == get_missing_skills(jd, text, extractor,
                                           fails.gap_jd, fails.gap_resume)
             IN ProcessScore(limited, hazard, jd, text, s, fails, gap,
                             AnyFailed(gap.extractions), <<"get_missing_skills">>))

\* calc = ATSCalculator(jd_text); SkillExtractor(...) in __init__ may fail
\* (init_ok) and annotate may raise (fail).
ConstructOn(jd, init_ok, fail) ==
    LET v == _validate_text(jd) IN
    IF v # "ok"
    THEN /\ last' = [op |-> "construct", raised |-> TRUE, error |-> v,
                     events |-> <<>>]
         /\ UNCHANGED <<threads, request_logs, now, request, ss_extractor, calc, failed, ref>>
    ELSE
      \E x \in {_extract_skills(_normalize(jd),
                                 IF init_ok THEN "primary" ELSE "disabled", fail)} :
      LET jd_text == _normalize(jd)
          ex == <<[annotated |-> x.annotated, failed |-> x.failed]>>
      IN /\ calc' = [built |-> TRUE, jd_text |-> jd_text, jd_skills |-> x.skills,
                     jd_required_years |-> _extract_experience_requirements(jd_text),
                     skill_extractor |-> x.extractor]
         /\ last' = [op |-> "construct", raised |-> FALSE, error |-> "",
                     events |-> Events(ex, 1, failed)]
         /\ failed' = (failed \/ x.failed)
         /\ ref' = NoRef
         /\ UNCHANGED <<threads, request_logs, now, request, ss_extractor>>

\* calc.total_score(resume_text, resume_structure); with `mark` the call is
\* remembered in ref.
TotalScoreOn(t, s, fail, mark) ==
    /\ calc.built
    /\ \E o \in {total_score(calc, t, s, fail)} :
       LET ex == <<[annotated |-> o.annotated, failed |-> o.failed]>>
       IN /\ calc' = [calc EXCEPT !.skill_extractor = o.extractor]
          /\ last' = [op |-> "total_score", ret |-> o.ret, raised |-> o.raised,
                      steps |-> o.steps, debug |-> o.debug, signals |-> o.signals,
                      marked |-> mark, events |-> Events(ex, 1, failed)]
          /\ failed' = (failed \/ o.failed)
          /\ ref' = IF mark
                    THEN [set |-> TRUE, ret |-> o.ret, raised |-> o.raised,
                          extractor |-> o.extractor]
                    ELSE ref
          /\ UNCHANGED <<threads, request_logs, now, request, ss_extractor>>

\* get_missing_skills(jd_text, resume_text)
GetMissingSkillsOn(jd, r, fail_jd, fail_resume) ==
    \E o \in {get_missing_skills(jd, r, ss_extractor, fail_jd, fail_resume)} :
       /\ ss_extractor' = o.extractor
       /\ last' = [op |-> "get_missing_skills", ret |-> o.ret, raised |-> o.raised,
                   jd_skills |-> o.jd_skills, resume_skills |-> o.resume_skills,
                   events |-> Events(o.extractions, 1, failed)]
       /\ failed' = (failed \/ AnyFailed(o.extractions))
       /\ UNCHANGED <<threads, request_logs, now, request, calc, ref>>

\* analyze_resume_structure(resume_text, resume_structure)
AnalyzeResumeStructureOn(t, s) ==
    \E o \in {analyze_resume_structure(t, s)} :
       /\ last' = [op |-> "analyze_resume_structure", ret |-> o.ret,
                   raised |-> o.raised, groups |-> o.groups]
       /\ UNCHANGED <<threads, request_logs, now, request, ss_extractor, calc, failed, ref>>

Construct ==
    \E init_ok \in BOOLEAN, fail \in BOOLEAN :
        ConstructOn(request.jd, init_ok, fail)

TotalScore ==
    \E fail \in BOOLEAN, mark \in BOOLEAN :
        TotalScoreOn(request.text, request.structure, fail, mark)

GetMissingSkills ==
    \E fail_jd \in BOOLEAN, fail_resume \in BOOLEAN :
        GetMissingSkillsOn(request.jd, request.text, fail_jd, fail_resume)

AnalyzeResumeStructure ==
    AnalyzeResumeStructureOn(request.text, request.structure)

\* POST /process with the upload parsed to (request.text, request.structure)
\* unless a hazard stops the request before.
ProcessOn(req, hazard, fails) ==
    \E o \in {process_resume_and_jd(request_logs, ss_extractor, req, now, hazard,
                                      request.jd, request.text, request.structure,
                                      fails)} :
       /\ Len(request_logs[ClientIp(req)]) < MaxRequests
       /\ request_logs' = o.logs
       /\ ss_extractor' = o.extractor
       /\ failed' = (failed \/ o.annotate_failed)
       /\ last' = [op |-> "process", status |-> o.status, success |-> o.success,
                   ats_score |-> o.ats_score,
                   suggested_skills |-> o.suggested_skills,
                   improvement_recommendation |-> o.improvement_recommendation,
                   ran |-> o.ran, hazard |-> hazard]
       /\ UNCHANGED <<request, calc, ref, now, threads>>

\* The requests of one client.  The annotate failures only matter to a
\* request that reaches the analysis.
Process ==
    \E hazard \in Hazards :
       IF hazard \in AnalysisHazards /\ JDProvided(request.jd)
       THEN \E fails \in AnnotateFailures : ProcessOn(ProcessClient, hazard, fails)
       ELSE ProcessOn(ProcessClient, hazard, NoAnnotateFailure)

\* Concurrent calls, one per thread, that share the module global and the
\* calculator.  A call is interleaved with the others at its reads and
\* writes of the extractor flag: the test `is not None` (check), the
\* attribute read of `.annotate(text)` (annotate), the assignment of None in
\* the except branch (disable), and the test `is None` before the fallback
\* (fallback).

\* The flag an operation works on.
Flag(op) == IF op = "extract_skills" THEN ss_extractor ELSE calc.skill_extractor

\* A call that returned.
Done(op, ret, raised, skills, start, got_primary, attr_error, downgraded) ==
    [pc |-> "done", op |-> op, ret |-> ret, raised |-> raised, skills |-> skills,
     start |-> start, got_primary |-> got_primary, attr_error |-> attr_error,
     downgraded |-> downgraded]

\* A call on its way, at position pc.
Running(pc, op, start, got_primary, attr_error, downgraded) ==
    [pc |-> pc, op |-> op, start |-> start, got_primary |-> got_primary,
     attr_error |-> attr_error, downgraded |-> downgraded]

\* The shared calculator is built once, before the calls.
ConstructShared == ~calc.built /\ Construct

\* extract_skills(request.text) begins: lines 68-75.
BeginExtractSkills(th) ==
    /\ threads[th] = Idle
    /\ threads' = [threads EXCEPT ![th] =
          IF Falsy(request.text) \/ ~IsStr(request.text) \/ Blank(request.text)
          THEN Done("extract_skills", 0, FALSE, {}, ss_extractor, FALSE, FALSE, FALSE)
          ELSE Running("check", "extract_skills", ss_extractor, FALSE, FALSE, FALSE)]
    /\ UNCHANGED <<request, ss_extractor, calc, last, failed, ref, request_logs, now>>

\* calc.total_score(request.text, request.structure) begins: validation and
\* the gate touch nothing shared; a call they end has returned.
BeginTotalScore(th) ==
    /\ threads[th] = Idle
    /\ calc.built
    /\ \E o \in {total_score(calc, request.text, request.structure, FALSE)} :
          threads' = [threads EXCEPT ![th] =
             IF \E i \in 1..Len(o.steps) : o.steps[i] = "content"
             THEN Running("check", "total_score", calc.skill_extractor,
                          FALSE, FALSE, FALSE)
             ELSE Done("total_score", o.ret, o.raised, {}, calc.skill_extractor,
                       FALSE, FALSE, FALSE)]
    /\ UNCHANGED <<request, ss_extractor, calc, last, failed, ref, request_logs, now>>

\* `if skill_extractor is not None:`
CheckExtractor(th) ==
    /\ threads[th].pc = "check"
    /\ threads' = [threads EXCEPT ![th].pc =
          IF Flag(threads[th].op) = "primary" THEN "annotate" ELSE "fallback"]
    /\ UNCHANGED <<request, ss_extractor, calc, last, failed, ref, request_logs, now>>

AnnotateOutcomeMutUncaught(flag, fail) ==
    IF flag # "primary" THEN "raised" ELSE IF fail THEN "caught" ELSE "ok"

\* `annotations = skill_extractor.annotate(text)` inside the try block: the
\* AttributeError of a flag that is None by now and the exception of
\* annotate are both caught.
AnnotateOutcome(flag, fail) ==
    IF flag # "primary" THEN "caught" ELSE IF fail THEN "caught" ELSE "ok"

Annotate(th) ==
    /\ threads[th].pc = "annotate"
    /\ \E fail \in BOOLEAN :
       \E outcome \in {AnnotateOutcome(Flag(threads[th].op), fail)} :
          /\ threads' = [threads EXCEPT ![th] =
                IF outcome = "ok"
                THEN [@ EXCEPT !.pc = "fallback", !.got_primary = TRUE]
                ELSE IF outcome = "caught"
                THEN [@ EXCEPT !.pc = "disable",
                               !.attr_error = (Flag(threads[th].op) # "primary")]
                ELSE Done(@.op, 0, TRUE, {}, @.start, FALSE, TRUE, FALSE)]
          /\ failed' = (failed \/ (outcome = "caught" /\ Flag(threads[th].op) = "primary"))
    /\ UNCHANGED <<request, ss_extractor, calc, last, ref, request_logs, now>>

\* `skill_extractor = None` in the except branch
Disable(th) ==
    /\ threads[th].pc = "disable"
    /\ threads' = [threads EXCEPT ![th].pc = "fallback", ![th].downgraded = TRUE]
    /\ IF threads[th].op = "extract_skills"
       THEN ss_extractor' = "disabled" /\ UNCHANGED calc
       ELSE calc' = [calc EXCEPT !.skill_extractor = "disabled"]
            /\ UNCHANGED ss_extractor
    /\ UNCHANGED <<request, last, failed, ref, request_logs, now>>

SkillsOfCallMutKeepPartial(op, t, got_primary, use_fallback) ==
    IF op = "extract_skills"
    THEN extract_skills(t, "primary", FALSE).skills
            \cup (IF use_fallback THEN extract_skills(t, "disabled", FALSE).skills ELSE {})
    ELSE _extract_skills(t, "primary", FALSE).skills
            \cup (IF use_fallback THEN _extract_skills(t, "disabled", FALSE).skills ELSE {})

\* The skills of a call that got the primary results (or not) and runs the
\* fallback (or not).
SkillsOfCall(op, t, got_primary, use_fallback) ==
    IF op = "extract_skills"
    THEN (IF got_primary THEN extract_skills(t, "primary", FALSE).skills ELSE {})
            \cup (IF use_fallback THEN extract_skills(t, "disabled", FALSE).skills ELSE {})
    ELSE (IF got_primary THEN _extract_skills(t, "primary", FALSE).skills ELSE {})
            \cup (IF use_fallback THEN _extract_skills(t, "disabled", FALSE).skills ELSE {})

\* The extraction result as _content_score takes it.
Extracted(skills, flag) ==
    [skills |-> skills, extractor |-> flag, annotated |-> TRUE, failed |-> FALSE]

\* `if skill_extractor is None:` and the rest of the call up to its return.
Fallback(th) ==
    /\ threads[th].pc = "fallback"
    /\ LET me   == threads[th]
           flag == Flag(me.op)
       IN IF me.op = "extract_skills"
          THEN threads' = [threads EXCEPT ![th] =
                  Done(me.op, 0, FALSE,
                       SkillsOfCall(me.op, request.text, me.got_primary,
                                    flag = "disabled"),
                       me.start, me.got_primary, me.attr_error, me.downgraded)]
          ELSE \E skills \in {SkillsOfCall(me.op, _normalize(request.text),
                                            me.got_primary, flag = "disabled")} :
               \E o \in {Scored(ContentWith(calc, _normalize(request.text),
                                             Extracted(skills, flag)),
                                 _formatting_score(request.text, request.structure))} :
                  threads' = [threads EXCEPT ![th] =
                     Done(me.op, o.ret, o.raised, skills, me.start,
                          me.got_primary, me.attr_error, me.downgraded)]
    /\ UNCHANGED <<request, ss_extractor, calc, last, failed, ref, request_logs, now>>

ThreadStep ==
    \E th \in Threads :
        \/ BeginExtractSkills(th) \/ BeginTotalScore(th)
        \/ CheckExtractor(th) \/ Annotate(th) \/ Disable(th) \/ Fallback(th)

\* await check_rate_limit(request)
CheckRateLimitOn(req) ==
    \E o \in {check_rate_limit(request_logs, req, now)} :
       /\ request_logs' = o.logs
       /\ last' = [op |-> "check_rate_limit", ip |-> o.ip, before |-> o.before,
                   exceeded |-> o.exceeded, raised |-> o.raised,
                   status |-> o.status, at |-> now]
       /\ UNCHANGED <<request, ss_extractor, calc, failed, ref, now, threads>>

CheckRateLimit == \E req \in HttpRequests : CheckRateLimitOn(req)

\* Time passes between two requests.
Tick ==
    /\ now + TickSeconds <= MaxTime
    /\ now' = now + TickSeconds
    /\ UNCHANGED <<request, ss_extractor, calc, last, failed, ref, request_logs,
                   threads>>

Next == Construct \/ TotalScore \/ GetMissingSkills \/ AnalyzeResumeStructure

\* The whole engine on a few requests.
Counted(python, sql, ml) ==
    [body |-> "prose",
     mentions |-> [p \in Phrases |->
                     CASE p = "python" -> python
                       [] p = "sql" -> sql
                       [] p = "machine learning" -> ml
                       [] OTHER -> 0]]

FewJDs ==
    {Counted(1, 1, 1), Counted(1, 2, 1), Counted(1, 1, 2),
     With("prose", {"postgresql"}), Bare("short")}

FewResumes ==
    {With("prose", {"python"}), With("prose", {"postgresql"}), Bare("resume"),
     Bare("ws"), Bare("none")}

Spec ==
    InitOn(FewJDs, FewResumes, {<<H_name, T_email>>, <<H_name>>, <<>>})
        /\ [][Next]_vars

\* Scoring: every text against a few structures.
JDTexts ==
    {With("prose", {}), With("prose", {"python"}), With("prose", {"sql"}),
     With("prose", {"python", "sql", "machine learning"}),
     Bare("resume"), Bare("short"), Bare("none")}

ResumeTexts ==
    TextsUpTo({"prose"}, 1)
        \cup {Bare(b) : b \in {"empty", "ws", "short", "noise", "resume"}}
        \cup {With("short", {"python"})} \cup NonStringTexts

NextScore == Construct \/ TotalScore

SpecScore == InitOn(JDTexts, ResumeTexts, FewStructures) /\ [][NextScore]_vars

\* The gate: every structure against a few texts.
SpecGate ==
    InitOn({With("prose", {"python"})},
           {With("prose", {"python"}), Bare("resume"), Bare("short")},
           Structures)
        /\ [][NextScore]_vars

\* The experience bonus: job descriptions that state required years against
\* resumes that name years.
BonusJDs ==
    {Bare("prose"), Bare("resume"), Bare("senior"), Bare("staff"),
     With("staff", {"python"})}

BonusResumes ==
    {Bare("prose"), Bare("resume"), Bare("junior"), Bare("veteran"),
     Bare("oneyear"), With("veteran", {"python"})}

SpecBonus ==
    InitOn(BonusJDs, BonusResumes, {<<H_name, T_email>>, <<H_name>>})
        /\ [][NextScore]_vars

\* The gap analysis: job descriptions that repeat their phrases.
GapJDs ==
    TextsUpTo({"prose"}, MaxCount)
        \cup {Bare("techlist"), With("techlist", {"python", "sql"}),
              Bare("resume"), Bare("empty"), Bare("ws"), Bare("short"),
              Bare("none")}

GapResumes ==
    TextsUpTo({"prose"}, 1)
        \cup {Bare("techlist"), Bare("resume"), Bare("empty"), Bare("ws"),
              Bare("none"), Bare("toolbox")}

NextGap == GetMissingSkills

SpecGap == InitOn(GapJDs, GapResumes, {<<>>}) /\ [][NextGap]_vars

\* The advisor: every structure, and the structures with sized elements.
AdviceTexts ==
    {Bare(b) : b \in {"empty", "ws", "short", "prose", "resume", "none", "nonstr"}}
        \cup {With("ws", {"python"}), With("resume", {"python"})}

AdviceStructures ==
    Structures
        \cup {<<H_large, T_small>>, <<H_name, T_small>>, <<H_exp, H_edu, B_mail>>,
              <<H_exp, B_mail, H_exp>>,
              <<H_exp, B_mail, B_mail, B_mail, B_mail, B_mail, B_mail>>}

NextAdvice == AnalyzeResumeStructure

SpecAdvice ==
    InitOn({Bare("prose")}, AdviceTexts, AdviceStructures) /\ [][NextAdvice]_vars

\* The /process handler on the parsed uploads and the job descriptions a
\* form can carry.
ProcessJDs ==
    {Bare("none"), Bare("empty"), Bare("ws"), Bare("short"),
     With("short", {"python"}), With("prose", {"python", "sql"})}

ProcessTexts == {Bare("resume"), With("prose", {"python"}), Bare("empty")}

ProcessStructures ==
    {<<>>, <<H_name, T_email>>, <<H_exp, B_mail, B_mail>>, <<H_name, T_email, Img>>}

NextProcess == Process

SpecProcess ==
    InitOn(ProcessJDs, ProcessTexts, ProcessStructures) /\ [][NextProcess]_vars

\* Concurrent calls on one calculator and on the module global.
ThreadJDs == {With("prose", {"postgresql", "sql"})}

ThreadTexts ==
    {With("prose", {"postgresql"}), With("prose", {"python"}),
     With("prose", {"machine learning", "sql"}), Bare("resume"), Bare("ws"),
     Bare("short")}

ThreadStructures == {<<H_name, T_email>>, <<H_exp, B_mail, B_mail>>, <<H_name>>, <<>>}

NextThreads == ConstructShared \/ ThreadStep

SpecThreads ==
    InitOn(ThreadJDs, ThreadTexts, ThreadStructures) /\ [][NextThreads]_vars

\* The rate limiter alone, as time passes.
NextLimit == CheckRateLimit \/ Tick

SpecLimit ==
    InitOn({Bare("prose")}, {Bare("resume")}, {<<>>}) /\ [][NextLimit]_vars

----------------------------------------------------------------------------
(* Properties *)

ScoreReturned == last.op = "total_score"

Ran(step) == \E i \in 1..Len(last.steps) : last.steps[i] = step

\* The gate as a function of the request's structure.
GateOfRequest == _check_disqualifiers(request.structure)

HasTableOrImage(s) == \E i \in 1..Len(s) : s[i].type \in {"table", "image"}

\* C1: whenever _check_disqualifiers fails on the resume structure,
\* total_score returns 0 whatever the text and the job profile are, and
\* neither the content nor the formatting scoring has run.
C1_GateFailureIsZero ==
    (ScoreReturned /\ IsList(request.structure)
        /\ ~GateOfRequest.raised /\ ~GateOfRequest.ok)
    => /\ last.ret = 0
       /\ ~last.raised
       /\ ~Ran("content") /\ ~Ran("formatting")
       /\ last.signals = NoSignals
       /\ \A i \in 1..Len(last.events) : ~last.events[i].annotated

\* A valid text with a matching skill reached the gate and was disqualified.
C1_Witness ==
    /\ ScoreReturned /\ Ran("gate")
    /\ last.debug.key = "disqualified"
    /\ last.ret = 0
    /\ calc.jd_skills \cap Mentioned(request.text) # {}

\* Text validation as the claim words it.
FailsTextValidation(t) ==
    \/ ~IsStr(t)
    \/ StrippedLen(t) = 0
    \/ StrippedLen(t) < 50
    \/ 2 * AlnumSpace(t) < Max(1, TextLen(t))

\* C2: for a string text and a list of elements of the data model,
\* total_score returns an integer in 0..100; for a text that fails text
\* validation it returns exactly 0.
C2_ScoreRange ==
    ScoreReturned =>
       /\ (IsStr(request.text) /\ WellFormed(request.structure))
             => (~last.raised /\ last.ret \in 0..100)
       /\ FailsTextValidation(request.text) => (~last.raised /\ last.ret = 0)

\* A well-formed request scored above zero.
C2_Witness ==
    /\ ScoreReturned
    /\ IsStr(request.text) /\ WellFormed(request.structure)
    /\ Ran("formatting")
    /\ last.ret > 0

\* C3: total_score never raises to its caller: every internal failure
\* is recorded in debug_details and gives 0.
C3_NeverRaises ==
    ScoreReturned => (~last.raised /\ last.debug.key # "")

\* C4: with a table or an image in the structure, _check_disqualifiers
\* returns (False, "Resume contains tables or images (not ATS-friendly)")
\* whatever name and contact information the other elements hold, and
\* total_score returns 0.
C4_TablesDisqualify ==
    (ScoreReturned /\ IsList(request.structure) /\ HasTableOrImage(request.structure))
    => /\ GateOfRequest = [raised |-> FALSE, ok |-> FALSE, reason |-> TablesReason]
       /\ last.ret = 0 /\ ~last.raised
       /\ Ran("gate") => last.debug = [key |-> "disqualified", value |-> TablesReason]

\* A structure with a name, an email and a table was disqualified.
C4_Witness ==
    /\ ScoreReturned /\ Ran("gate")
    /\ HasTableOrImage(request.structure)
    /\ GateHasName(request.structure) /\ GateHasEmail(request.structure)
    /\ last.debug.value = TablesReason
    /\ last.ret = 0

GapReturned == last.op = "get_missing_skills"

\* An empty text: None or "".
Empty(t) == t.body = "none" \/ (IsStr(t) /\ TextLen(t) = 0)

\* C5: get_missing_skills never raises and returns at most 20 strings,
\* each of them in COMMON_SKILLS; the list is empty when the job
\* description or the resume is empty.
C5_GapIsBounded ==
    GapReturned =>
       /\ ~last.raised
       /\ Len(last.ret) <= 20
       /\ \A i \in 1..Len(last.ret) : last.ret[i] \in COMMON_SKILLS
       /\ (Empty(request.jd) \/ Empty(request.text)) => last.ret = <<>>

\* More than 20 vocabulary skills were missing and 20 were returned, while
\* the job description also held a skill outside the vocabulary.
C5_Witness ==
    /\ GapReturned
    /\ Len(last.ret) = 20
    /\ Cardinality((last.jd_skills \ last.resume_skills) \cap COMMON_SKILLS) > 20
    /\ last.jd_skills \ COMMON_SKILLS # {}

\* C6: analyze_resume_structure never raises and returns at least one
\* entry, for every resume text and every structure.
C6_AdviceNeverRaises ==
    last.op = "analyze_resume_structure" => (~last.raised /\ Len(last.ret) >= 1)

\* C7: once annotate has raised in a skill extraction, no later skill
\* extraction of the process calls annotate again, be it through a new
\* ATSCalculator or through suggest_skills.extract_skills.
C7_DemotionIsProcessWide ==
    last.op \in {"construct", "total_score", "get_missing_skills"} =>
        \A i \in 1..Len(last.events) :
            last.events[i].failed_before => ~last.events[i].annotated

\* Two total_score calls on the calculator with the request's text and
\* structure: the one remembered in ref and a later one.
ScoredTwice == ScoreReturned /\ ~last.marked /\ ref.set

ScoreWithSkills(resume_skills) ==
    RoundPct(ContentOf(SkillCoverage(calc.jd_skills, resume_skills),
                       last.signals.sim, last.signals.keywords, last.signals.bonus)
             + last.signals.formatting)

AtLeast(a, b) == a.num * b.den >= b.num * a.den

\* C9: for the job profile of the calculator, adding a skill of the job
\* description to the resume skill set never lowers skill_coverage nor the
\* score, the other signals held constant.
C9_CoverageMonotone ==
    (ScoreReturned /\ Ran("formatting") /\ last.debug.key = "final_score") =>
        /\ last.ret = ScoreWithSkills(last.signals.resume_skills)
        /\ \A k \in calc.jd_skills :
              /\ AtLeast(SkillCoverage(calc.jd_skills, last.signals.resume_skills \cup {k}),
                         SkillCoverage(calc.jd_skills, last.signals.resume_skills))
              /\ ScoreWithSkills(last.signals.resume_skills \cup {k}) >= last.ret

\* A job-description skill missing from the resume would raise the score.
C9_Witness ==
    /\ ScoreReturned /\ Ran("formatting") /\ last.debug.key = "final_score"
    /\ \E k \in calc.jd_skills \ last.signals.resume_skills :
          ScoreWithSkills(last.signals.resume_skills \cup {k}) > last.ret
    /\ last.signals.resume_skills \cap calc.jd_skills # {}

ScenarioSkills == {"python", "sql", "machine learning"}

ScenarioScored ==
    /\ ScoreReturned /\ Ran("content")
    /\ calc.jd_skills = ScenarioSkills
    /\ last.signals.resume_skills = {"python"}

ScenarioGap ==
    /\ GapReturned
    /\ last.jd_skills = ScenarioSkills
    /\ last.resume_skills = {"python"}

\* C10 as stated: coverage is 1/3 and the gap is ["sql", "machine learning"].
C10_ScenarioAsStated ==
    /\ ScenarioScored => last.signals.coverage = [num |-> 1, den |-> 3]
    /\ ScenarioGap => last.ret = <<"sql", "machine learning">>

\* C10: with JD skills {python, sql, machine learning} and resume skills
\* {python}, skill_coverage is 1/3 and get_missing_skills returns the two
\* missing skills by descending count in the JD text, ties alphabetically:
\* ["sql", "machine learning"] exactly when "sql" occurs more often in the
\* JD text than "machine learning", ["machine learning", "sql"] otherwise.
C10_ScenarioByFrequency ==
    /\ ScenarioScored => last.signals.coverage = [num |-> 1, den |-> 3]
    /\ ScenarioGap =>
          last.ret = IF Count(request.jd, "sql") > Count(request.jd, "machine learning")
                     THEN <<"sql", "machine learning">>
                     ELSE <<"machine learning", "sql">>

\* The gap analysis returned ["sql", "machine learning"] for a JD that names
\* sql twice.
C10_Witness ==
    /\ ScenarioGap
    /\ Count(request.jd, "sql") = 2
    /\ last.ret = <<"sql", "machine learning">>

\* The skills get_missing_skills ranks: in the job description and not in
\* the resume, in the vocabulary, longer than two characters.
GapCandidates ==
    {k \in (last.jd_skills \ last.resume_skills) \cap COMMON_SKILLS : Len(k) > 2}

\* a is ranked before b: more occurrences in the lowercased JD text, or as
\* many and alphabetically first.
RankedBefore(a, b) ==
    \/ Count(request.jd, a) > Count(request.jd, b)
    \/ /\ Count(request.jd, a) = Count(request.jd, b)
       /\ AlphaIndex(a) < AlphaIndex(b)

\* C11: the list of get_missing_skills is in descending order of the
\* occurrence count of the skill in the lowercased JD text, ties in
\* ascending alphabetical order; it is the first 20 entries of that ordering
\* of the missing skills, without duplicates and without any skill of the
\* resume skill set.
C11_GapIsRanked ==
    GapReturned =>
       /\ \A i, j \in 1..Len(last.ret) :
             i < j => RankedBefore(last.ret[i], last.ret[j])
       /\ Range(last.ret) \subseteq GapCandidates
       /\ Len(last.ret) = Min(20, Cardinality(GapCandidates))
       /\ \A k \in GapCandidates \ Range(last.ret) :
             \A i \in 1..Len(last.ret) : RankedBefore(last.ret[i], k)
       /\ Range(last.ret) \cap last.resume_skills = {}

\* More than 20 skills were missing; the 20 returned start with the two
\* most frequent ones, go on with skills of equal count, and leave out a
\* skill the resume has.
C11_Witness ==
    /\ GapReturned
    /\ Cardinality(GapCandidates) > 20 /\ Len(last.ret) = 20
    /\ last.ret[1] = "docker" /\ last.ret[2] = "kubernetes"
    /\ Count(request.jd, last.ret[3]) = Count(request.jd, last.ret[4])
    /\ last.resume_skills \cap last.jd_skills # {}

AdviceReturned == last.op = "analyze_resume_structure" /\ ~last.raised

\* The issues of the contact rules and of the content-quality rules that
\* look at the text alone.
ContactIssuesOf(t) == check_contact_info(t).issues

WeakVerbsOf(t) ==
    When(~BodyHasActionVerb(t.body),
         Issue("Weak action verbs",
               "Start bullet points with strong action verbs (e.g., \"Led\", \"Developed\", \"Increased\")."))

\* The missing-section issues, which the section rules find in the text.
MissingSectionsOf(t) ==
    MissingSection(t, "experience") \o MissingSection(t, "education")
        \o MissingSection(t, "skills")

\* C12 as stated: with an empty structure the result is the issues of the
\* contact and content-quality rules, or the single "No major issues
\* detected" entry when none of them fires.
C12_EmptyStructureAsStated ==
    (AdviceReturned /\ request.structure = <<>>
        /\ IsStr(request.text) /\ ~Falsy(request.text))
    => last.ret = IF ContactIssuesOf(request.text) \o WeakVerbsOf(request.text) = <<>>
                  THEN <<NoMajorIssues>>
                  ELSE ContactIssuesOf(request.text) \o WeakVerbsOf(request.text)

\* C12: whenever analyze_resume_structure returns on an empty structure, a
\* falsy or non-string text gives the single "Invalid resume text" entry;
\* any other text gives the contact issues, then the missing-section issues
\* found in the text, then the weak-action-verbs issue, or the single "No
\* major issues detected" entry when none of these fires.  For every
\* structure that entry never comes with another one.
C12_EmptyStructureTextRules ==
    AdviceReturned =>
       /\ (NoMajorIssues \in Range(last.ret)) => last.ret = <<NoMajorIssues>>
       /\ request.structure = <<>> =>
             last.ret =
                IF Falsy(request.text) \/ ~IsStr(request.text) THEN <<InvalidText>>
                ELSE IF ContactIssuesOf(request.text) \o MissingSectionsOf(request.text)
                            \o WeakVerbsOf(request.text) = <<>>
                THEN <<NoMajorIssues>>
                ELSE ContactIssuesOf(request.text) \o MissingSectionsOf(request.text)
                            \o WeakVerbsOf(request.text)

\* An empty structure and a text without sections: the three missing-section
\* issues stand between the contact issues and the weak-verbs issue.
C12_Witness ==
    /\ AdviceReturned /\ request.structure = <<>>
    /\ Len(last.groups.contact) = 3 /\ Len(last.groups.sections) = 3
    /\ Len(last.ret) = 7
    /\ last.ret[4].issue = "Missing \"Experience\" section"
    /\ last.ret[7].issue = "Weak action verbs"

\* The rules in the order analyze_resume_structure evaluates them, each
\* named by the start of the issue it reports; the last one is the entry
\* the content-quality group reports instead of its issues when it fails.
RuleOrder ==
    <<"Missing or unclear name", "Missing both email", "No professional profile",
      "Missing \"Experience\"", "Missing \"Education\"", "Missing \"Skills\"",
      "Name/contact information",
      "Font size too small", "Inconsistent font sizes", "Uses tables",
      "Contains images",
      "No bullet points", "Too many bullet points", "Weak action verbs",
      "Error analyzing content quality">>

\* The rule group of each position of RuleOrder.
RuleGroup(k) ==
    IF k <= 3 THEN "contact"
    ELSE IF k <= 7 THEN "sections"
    ELSE IF k <= 11 THEN "formatting"
    ELSE "content"

StartsWith(str, prefix) ==
    Len(str) >= Len(prefix)
        /\ \E rest \in {"", " at the top of the resume", " and phone number",
                        " links", " section", " not at the top", " (8.0pt)",
                        " (8pt)", " or columns", " or graphics",
                        " in \"experience\" section", " (6) in \"experience\""} :
              str = prefix \o rest

\* The position in RuleOrder of the rule that reports the issue; 0 when no
\* rule does.
RuleOf(issue) ==
    IF \E k \in 1..Len(RuleOrder) : StartsWith(issue.issue, RuleOrder[k])
    THEN CHOOSE k \in 1..Len(RuleOrder) : StartsWith(issue.issue, RuleOrder[k])
    ELSE 0

\* The two bullet rules are evaluated section by section, so their issues
\* may alternate; every other rule reports at most once.
SameLoop(a, b) == a \in {12, 13} /\ b \in {12, 13}

\* C13: the issues of analyze_resume_structure come in rule-evaluation
\* order: the contact issues, then the section issues, then the formatting
\* issues, then the content-quality issues, each group in the order of its
\* rules.
C13_RuleOrder ==
    (AdviceReturned /\ last.ret \notin {<<NoMajorIssues>>, <<InvalidText>>})
    => /\ \A i \in 1..Len(last.ret) : RuleOf(last.ret[i]) # 0
       /\ \A i, j \in 1..Len(last.ret) :
             i < j => \/ RuleOf(last.ret[i]) < RuleOf(last.ret[j])
                      \/ SameLoop(RuleOf(last.ret[i]), RuleOf(last.ret[j]))
       /\ \A i \in 1..Len(last.ret) :
             \E k \in 1..Len(last.groups[RuleGroup(RuleOf(last.ret[i]))]) :
                last.groups[RuleGroup(RuleOf(last.ret[i]))][k] = last.ret[i]

\* Issues of all four groups were returned, the content-quality group with
\* a bullet issue and the weak-verbs issue.
C13_Witness ==
    /\ AdviceReturned
    /\ last.groups.contact # <<>> /\ last.groups.sections # <<>>
    /\ last.groups.formatting # <<>> /\ Len(last.groups.content) = 2
    /\ RuleGroup(RuleOf(last.ret[1])) = "contact"
    /\ RuleOf(last.ret[Len(last.ret)]) = 14

\* The gate ran in the last total_score call and gave its verdict on a
\* structure without table or image.
GateJudgedContact ==
    /\ ScoreReturned /\ Ran("gate") /\ ~last.raised
    /\ ~HasTableOrImage(request.structure)

GatePassed == last.debug.key # "disqualified"

\* The words of an element's content.
Tokens(e) == split(IF e.has_content THEN e.content ELSE "")

\* One of the four contact patterns matches the element's content.
ContactIn(e) ==
    LET content == IF e.has_content THEN e.content ELSE ""
    IN \/ email_regex(content) \/ phone_regex(content)
       \/ linkedin_regex(lower(content)) \/ github_regex(lower(content))

\* A heading of 1 to 5 words.
ShortHeading(e) ==
    e.type = "heading" /\ Len(Tokens(e)) >= 1 /\ Len(Tokens(e)) <= 5

\* C14 as stated: the gate passes iff a heading has 1-5 words that all start
\* with an uppercase letter and a contact pattern matches a heading or a
\* text element.
C14_GateAsStated ==
    GateJudgedContact =>
       (GatePassed <=>
          /\ \E i \in 1..Len(request.structure) :
                /\ ShortHeading(request.structure[i])
                /\ \A k \in 1..Len(Tokens(request.structure[i])) :
                      first_isupper(Tokens(request.structure[i])[k])
          /\ \E i \in 1..Len(request.structure) :
                /\ request.structure[i].type \in {"heading", "text"}
                /\ ContactIn(request.structure[i]))

\* C14: without table or image, whenever the gate returns it passes iff a
\* heading has 1-5 words of which at least one starts with an uppercase
\* letter and a contact pattern matches the content of an element of any
\* type, bullets included.
C14_GateRelaxed ==
    GateJudgedContact =>
       (GatePassed <=>
          /\ \E i \in 1..Len(request.structure) :
                /\ ShortHeading(request.structure[i])
                /\ \E k \in 1..Len(Tokens(request.structure[i])) :
                      first_isupper(Tokens(request.structure[i])[k])
          /\ \E i \in 1..Len(request.structure) : ContactIn(request.structure[i]))

\* The gate passed a structure whose heading has a lowercase word and whose
\* only contact pattern is in a bullet.
C14_Witness ==
    /\ GateJudgedContact /\ GatePassed /\ Ran("formatting")
    /\ request.structure = <<H_mixed, B_mail>>

\* p percent of 1, in score units.
Pct(p) == (p * Unit) \div 100

Clamp(lo, hi, x) == IF x < lo THEN lo ELSE IF x > hi THEN hi ELSE x

\* content = 0.25 skillCoverage + 0.20 similarity + 0.15 keywordPresence
\*           + experienceBonus, clamped to [0, 0.60];
\* coverage is a fraction, similarity is in units, keywords counts the
\* important keywords present, bonus is in units.
ContentFormula(coverage, similarity, keywords, bonus) ==
    Clamp(0, Pct(60),
          (Pct(25) * coverage.num) \div coverage.den
            + (20 * similarity) \div 100
            + (Pct(15) * keywords) \div Cardinality(IMPORTANT_KEYWORDS)
            + bonus)

\* formatting = 0.20 sectionCoverage + bulletBalance + readabilityVerb,
\* clamped to [0, 0.40]; sections counts the required sections present.
FormattingFormula(sections, bullet_balance, readability) ==
    Clamp(0, Pct(40), (Pct(20) * sections) \div 3 + bullet_balance + readability)

\* The required sections among the headings of a structure.
SectionsPresent(s) ==
    {"skills", "experience", "education"}
        \cap {lower(s[i].content) : i \in {j \in 1..Len(s) : s[j].type = "heading"}}

FinalScored == ScoreReturned /\ ~last.raised /\ last.debug.key = "final_score"

\* C15: for an input that passes validation and the gate, the score is
\* round((content + formatting) * 100) with content and formatting the two
\* clamped weighted sums of the sub-signals; the sub-signals at their
\* maximum give 100 and all at zero give 0.
C15_ScoreFormula ==
    /\ FinalScored =>
          /\ last.signals.content =
                ContentFormula(last.signals.coverage, last.signals.sim,
                               last.signals.keywords, last.signals.bonus)
          /\ last.signals.formatting =
                FormattingFormula(Cardinality(SectionsPresent(request.structure)),
                                  BulletComponent(request.structure),
                                  ReadComponent(request.text, request.structure))
          /\ last.ret = RoundPct(last.signals.content + last.signals.formatting)
    /\ calc.built =>
          /\ RoundPct(ContentOf([num |-> 1, den |-> 1], Unit,
                                Cardinality(IMPORTANT_KEYWORDS), Pct(2))
                      + FormattingFormula(3, Pct(BULLETS_WEIGHT),
                                          Pct(READABILITY_VERBS_WEIGHT))) = 100
          /\ RoundPct(ContentOf([num |-> 0, den |-> 1], 0, 0, 0)
                      + FormattingFormula(0, 0, 0)) = 0

\* A call scored a resume on which skill coverage, keywords, the experience
\* bonus, sections, bullets and readability all contribute.
C15_Witness ==
    /\ FinalScored
    /\ last.signals.coverage.num > 0 /\ last.signals.keywords > 0
    /\ last.signals.bonus > 0
    /\ SectionsPresent(request.structure) # {}
    /\ BulletComponent(request.structure) > 0
    /\ ReadComponent(request.text, request.structure) > 0
    /\ last.ret = 46

\* C17: a request that arrives when its IP already has RATE_LIMIT logged
\* requests inside the window is rejected with HTTP 429 raised to the
\* caller of check_rate_limit and is not logged; so an IP never gets more
\* than RATE_LIMIT requests through within one window.
C17_RateLimitRejects ==
    (last.op = "check_rate_limit" /\ last.before >= RATE_LIMIT)
    => /\ last.raised /\ last.status = 429
       /\ Len(request_logs[last.ip]) = last.before

Processed == last.op = "process"

\* The job description is empty, omitted or whitespace-only.
NoJobDescription(jd) ==
    jd.body = "none" \/ (IsStr(jd) /\ (TextLen(jd) = 0 \/ StrippedLen(jd) = 0))

\* C16: with an empty, omitted or whitespace-only job description the
\* /process handler runs none of the three analyses; a request whose upload
\* is accepted and parsed in time gets a successful response with
\* ats_score 0, no suggested skills and no recommendations.
C16_NoJobDescription ==
    (Processed /\ NoJobDescription(request.jd)) =>
       /\ last.ran = <<>>
       /\ last.ats_score = 0
       /\ last.suggested_skills = <<>>
       /\ last.improvement_recommendation = <<>>
       /\ last.status = 200 => last.success
       /\ last.hazard \in {"none", "timeout_skills", "timeout_score", "timeout_advice"}
             => last.status = 200

\* A whitespace-only job description came with a resume that a job
\* description would have been scored against.
C16_Witness ==
    /\ Processed /\ last.status = 200 /\ last.success
    /\ request.jd = Bare("ws")
    /\ request.text = Bare("resume")
    /\ request.structure = <<H_name, T_email>>
    /\ last.hazard = "none"
    /\ last.ran = <<>> /\ last.ats_score = 0

Began(th) == threads[th].pc # "idle"

Returned(th) == threads[th].pc = "done"

\* C18: the extractor flag only ever goes from available to disabled, so it
\* changes at most once; and when a concurrent call disables it at any
\* point of another call, also between that call's test of the flag and
\* its annotate call, every call returns a skill set without raising and
\* the flag ends disabled.
C18_DowngradeIsBenign ==
    \A th \in Threads :
       /\ Returned(th) =>
             /\ ~threads[th].raised
             /\ threads[th].skills \subseteq
                   SkillsOfCall(threads[th].op,
                                IF threads[th].op = "extract_skills"
                                THEN request.text ELSE _normalize(request.text),
                                TRUE, TRUE)
             /\ threads[th].skills \in SUBSET threads[th].skills
       /\ (Began(th) /\ (threads[th].downgraded \/ threads[th].attr_error
                          \/ threads[th].start = "disabled"))
             => Flag(threads[th].op) = "disabled"

\* One call tested the flag while it was available and found it disabled
\* by the other call when it went on to annotate; both returned skills.
C18_Witness ==
    \E a, b \in Threads :
       /\ a # b /\ Returned(a) /\ Returned(b)
       /\ threads[a].op = threads[b].op
       /\ threads[a].start = "primary" /\ threads[a].attr_error
       /\ ~threads[a].got_primary
       /\ threads[b].downgraded /\ ~threads[b].attr_error
       /\ ~threads[a].raised /\ threads[a].skills # {}
       /\ Flag(threads[a].op) = "disabled"

\* What total_score returns when it runs alone on the calculator, in either
\* state of its extractor and whether annotate raises or not.
AloneResults ==
    {total_score([calc EXCEPT !.skill_extractor = f],
                 request.text, request.structure, fail).ret :
        f \in {"primary", "disabled"}, fail \in BOOLEAN}

\* C19: concurrent total_score calls on one ATSCalculator leave jd_text,
\* jd_skills and jd_required_years as the constructor set them, and each
\* returns the integer it would return if it ran alone on that instance.
C19_SharedCalculatorSafe ==
    calc.built =>
       /\ calc.jd_text = _normalize(request.jd)
       /\ calc.jd_required_years = _extract_experience_requirements(_normalize(request.jd))
       /\ \E init_ok \in BOOLEAN, fail \in BOOLEAN :
             calc.jd_skills = ATSCalculator(request.jd, init_ok, fail).calc.jd_skills
       /\ \A th \in Threads :
             (Returned(th) /\ threads[th].op = "total_score")
                => (~threads[th].raised /\ threads[th].ret \in AloneResults)

\* The structure's only container heading is 'Experience' and exactly n
\* bullets stand beneath it.
OnlyExperienceWith(s, n) ==
    /\ bullets_by_section(s)["experience"] = n
    /\ \A k \in Containers \ {"experience"} : bullets_by_section(s)[k] = -1

\* C20: a structure whose only container heading is 'Experience' with
\* exactly 6 bullets beneath it has the bullet-balance component
\* BULLETS_WEIGHT/4 - BULLETS_WEIGHT/10, which is what the formatting score
\* of a scored resume then contains; and for every structure the component
\* lies in [0, BULLETS_WEIGHT].
C20_BulletBalance ==
    /\ OnlyExperienceWith(request.structure, 6) =>
          /\ BulletComponent(request.structure) = Pct(BULLETS_WEIGHT) \div 4 - Pct(BULLETS_WEIGHT) \div 10
          /\ FinalScored =>
                last.signals.formatting =
                   FormattingFormula(Cardinality(SectionsPresent(request.structure)),
                                     Pct(BULLETS_WEIGHT) \div 4 - Pct(BULLETS_WEIGHT) \div 10,
                                     ReadComponent(request.text, request.structure))
    /\ BulletComponent(request.structure) >= 0
    /\ BulletComponent(request.structure) <= Pct(BULLETS_WEIGHT)

\* A resume with six bullets under its only container heading was scored.
C20_Witness ==
    /\ FinalScored
    /\ OnlyExperienceWith(request.structure, 6)
    /\ Len(request.structure) = 7
    /\ last.signals.formatting >= Pct(BULLETS_WEIGHT) \div 4 - Pct(BULLETS_WEIGHT) \div 10

\* The bullets from position i up to the next heading.
RECURSIVE BulletsBeneath(_, _)
BulletsBeneath(s, i) ==
    IF i > Len(s) \/ s[i].type = "heading" THEN 0
    ELSE (IF s[i].type = "bullet" THEN 1 ELSE 0) + BulletsBeneath(s, i + 1)

\* The positions of the container headings of a structure.
ContainerOccurrences(s) ==
    {i \in 1..Len(s) :
        s[i].type = "heading" /\ s[i].has_content /\ lower(s[i].content) \in Containers}

\* The bullet balance counted per occurrence of a container heading.
OccurrenceBalance(s) ==
    LET occ == ContainerOccurrences(s)
        reward  == [i \in occ |-> IF BulletsBeneath(s, i + 1) >= 2
                                  THEN Pct(BULLETS_WEIGHT) \div 4 ELSE 0]
        penalty == [i \in occ |-> IF BulletsBeneath(s, i + 1) > 4
                                  THEN Pct(BULLETS_WEIGHT) \div 10 ELSE 0]
    IN Clamp(0, Pct(BULLETS_WEIGHT), SumOver(occ, reward) - SumOver(occ, penalty))

\* C21: bullets are counted per occurrence of a container heading, from the
\* heading up to the next heading; every occurrence with at least 2 bullets
\* earns one reward and only an occurrence with more than 4 bullets is
\* penalised, also when a section name occurs more than once.
C21_PerOccurrence ==
    FinalScored =>
       last.signals.formatting =
          FormattingFormula(Cardinality(SectionsPresent(request.structure)),
                            OccurrenceBalance(request.structure),
                            ReadComponent(request.text, request.structure))

\* The positions of the headings that check_content_quality tracks.
TrackedOccurrences(s) ==
    {i \in 1..Len(s) :
        s[i].type = "heading" /\ s[i].has_content /\ Tracked(lower(s[i].content))}

\* The bullet issue that one occurrence of a tracked heading calls for.
OccurrenceIssue(s, i) ==
    LET section_name == lower(s[i].content)
        bullet_count == BulletsBeneath(s, i + 1)
    IN IF bullet_count = 0
          /\ \E exp \in {"experience", "work experience"} : InHeading(exp, section_name)
       THEN {Issue("No bullet points in \"" \o section_name \o "\" section",
                   "Use 3-5 bullet points per position to highlight achievements.")}
       ELSE IF bullet_count > MAX_BULLETS_PER_SECTION
       THEN {Issue("Too many bullet points (" \o ToString(bullet_count)
                       \o ") in \"" \o section_name \o "\"",
                   "Limit to " \o ToString(MAX_BULLETS_PER_SECTION)
                       \o " bullet points per position for better readability.")}
       ELSE {}

ExpectedBulletIssues(s) ==
    UNION {OccurrenceIssue(s, i) : i \in TrackedOccurrences(s)}

\* The content-quality rules ran to their end in the last advice call.
ContentChecked ==
    /\ AdviceReturned
    /\ WellFormed(request.structure)
    /\ last.ret \notin {<<InvalidText>>}
    /\ ContentError \notin Range(last.groups.content)

\* C22: check_content_quality reports 'Too many bullet points' for every
\* tracked section with more than 5 bullets between its heading and the
\* next heading and 'No bullet points' for every experience-type section
\* with none, also when a later heading repeats the text of an earlier one.
C22_BulletIssuesPerSection ==
    ContentChecked =>
       Range(last.groups.content) \ Range(WeakVerbsOf(request.text))
          = ExpectedBulletIssues(request.structure)

\* The years the job description requires: the largest figure it states.
RequiredYears(jd) ==
    IF BodyRequiredYears(jd.body) = {} THEN 0 ELSE SetMax(BodyRequiredYears(jd.body))

\* The year span of a resume: latest minus earliest distinct year, within
\* 0..40, and 0 when it names fewer than two distinct years.
YearSpan(t) ==
    IF Cardinality(BodyYears(t.body)) < 2 THEN 0
    ELSE Clamp(0, 40, SetMax(BodyYears(t.body)) - SetMin(BodyYears(t.body)))

\* C23: the experience bonus is 0.02 exactly when the job description
\* requires more than 0 years and the resume's year span is at least the
\* required years; it is 0 in every other case.
C23_ExperienceBonus ==
    FinalScored =>
       /\ calc.jd_required_years = RequiredYears(request.jd)
       /\ last.signals.bonus \in {0, Pct(2)}
       /\ last.signals.bonus = Pct(2)
             <=> (RequiredYears(request.jd) > 0
                    /\ YearSpan(request.text) >= RequiredYears(request.jd))

\* A span of 45 years, counted as 40, meets a requirement of 40 years.
C23_Witness ==
    /\ FinalScored
    /\ RequiredYears(request.jd) = 40
    /\ SetMax(BodyYears(request.text.body)) - SetMin(BodyYears(request.text.body)) = 45
    /\ last.signals.bonus = Pct(2)

\* The tokens of the secondary pattern layer for a text.
PatternTokens(t) ==
    IF IsStr(t) THEN {clean_phrase(x) : x \in PatternCaptures(t)} ELSE {}

\* C24: every skill extraction of the engine, in the gap analysis and in
\* the calculator, adds the tokens of the secondary phrase-pattern layer to
\* its result, whether the primary path is available or disabled.
C24_PatternLayerAlways ==
    /\ (GapReturned /\ ~Falsy(request.jd) /\ ~Falsy(request.text)) =>
          /\ PatternTokens(request.jd) \subseteq last.jd_skills
          /\ PatternTokens(request.text) \subseteq last.resume_skills
    /\ calc.built => PatternTokens(calc.jd_text) \subseteq calc.jd_skills
    /\ (ScoreReturned /\ Ran("content")) =>
          PatternTokens(_normalize(request.text)) \subseteq last.signals.resume_skills

\* str.strip() of a skill string: the empty and the blank strings apart,
\* no string of the model has whitespace at its ends.
strip(k) == IF k \in {" ", "   "} THEN "" ELSE k

\* A canonical skill string: non-empty, lowercase, trimmed, at most 100
\* characters.
Canonical(k) == k # "" /\ lower(k) = k /\ strip(k) = k /\ Len(k) <= 100

\* C25: every member of a set returned by extract_skills is a canonical
\* skill string, on the primary path, the fallback path and the pattern
\* layer alike.
C25_SkillsAreCanonical ==
    GapReturned =>
       \A k \in last.jd_skills \cup last.resume_skills : Canonical(k)

\* The two extraction paths: the taxonomy service answering, and the
\* fallback vocabulary scan.
Paths == {"primary", "disabled"}

\* C26: within one get_missing_skills call and within one calculator's
\* lifetime the JD skill set and the resume skill set that are compared
\* come from the same extraction path; the JD set is never a taxonomy
\* result while the resume set is a fallback result.
C26_SamePathBothSides ==
    /\ (GapReturned /\ ~Falsy(request.jd) /\ ~Falsy(request.text)) =>
          \E path \in Paths :
             /\ last.jd_skills = extract_skills(request.jd, path, FALSE).skills
             /\ last.resume_skills = extract_skills(request.text, path, FALSE).skills
    /\ (ScoreReturned /\ Ran("content")) =>
          \E path \in Paths :
             /\ calc.jd_skills = _extract_skills(calc.jd_text, path, FALSE).skills
             /\ last.signals.resume_skills =
                   _extract_skills(_normalize(request.text), path, FALSE).skills

\* What a call returns for the request's text when the primary path was
\* disabled before the call, and what the primary path finds in the text.
FallbackAlone(op) ==
    IF op = "extract_skills"
    THEN extract_skills(request.text, "disabled", FALSE).skills
    ELSE _extract_skills(_normalize(request.text), "disabled", FALSE).skills

PrimaryAlone(op) ==
    IF op = "extract_skills"
    THEN extract_skills(request.text, "primary", FALSE).skills
    ELSE _extract_skills(_normalize(request.text), "primary", FALSE).skills

\* The taxonomy service raised in the call of thread th.
ServiceRaisedIn(th) ==
    Returned(th) /\ threads[th].downgraded /\ ~threads[th].attr_error

\* C27: a skill-extraction call in which the taxonomy service raises does
\* not raise itself; it keeps no taxonomy result, runs the fallback scan and
\* returns exactly the set that the fallback path returns for the text when
\* the primary path was disabled beforehand.
C27_FailureFallsBack ==
    /\ \A th \in Threads :
          ServiceRaisedIn(th) =>
             /\ ~threads[th].raised
             /\ threads[th].skills = FallbackAlone(threads[th].op)
             /\ Flag(threads[th].op) = "disabled"
    /\ extract_skills(request.text, "primary", TRUE).skills
          = extract_skills(request.text, "disabled", FALSE).skills
    /\ _extract_skills(_normalize(request.text), "primary", TRUE).skills
          = _extract_skills(_normalize(request.text), "disabled", FALSE).skills

\* The service raised in a call on a text in which the taxonomy finds a
\* skill that the fallback does not: the call returned without it.
C27_Witness ==
    \E th \in Threads :
       /\ ServiceRaisedIn(th)
       /\ threads[th].start = "primary"
       /\ threads[th].skills # {}
       /\ PrimaryAlone(threads[th].op) \ threads[th].skills # {}

NameNotAtTop ==
    Issue("Name/contact information not at the top",
          "Place your name and contact information at the top of the first page.")

\* The positions of the non-empty headings of a structure.
HeadingPositions(s) ==
    {i \in 1..Len(s) : s[i].type = "heading" /\ s[i].has_content /\ s[i].content # ""}

\* The text of the first non-empty heading, as the resume writes it.
FirstHeading(s) == s[SetMin(HeadingPositions(s))].content

\* 2-4 tokens, each starting with an uppercase letter.
WrittenLikeName(c) ==
    /\ 2 <= Len(split(c)) /\ Len(split(c)) <= 4
    /\ \A k \in 1..Len(split(c)) : first_isupper(split(c)[k])

\* The section rules ran to their end in the last advice call.
SectionsChecked ==
    /\ AdviceReturned
    /\ IsList(request.structure)
    /\ last.ret # <<InvalidText>>
    /\ \A i \in 1..Len(last.groups.sections) :
          last.groups.sections[i].issue # "Error analyzing resume sections"

\* C28: check_sections reports 'Name/contact information not at the top' if
\* and only if the structure has a non-empty heading and the first one does
\* not look like a name; a first heading such as 'John Doe' gets no such
\* issue.
C28_NameAtTop ==
    SectionsChecked =>
       (NameNotAtTop \in Range(last.groups.sections)
           <=> /\ HeadingPositions(request.structure) # {}
               /\ ~WrittenLikeName(FirstHeading(request.structure)))

LimitChecked == last.op = "check_rate_limit"

\* C29: after any sequence of check_rate_limit calls the request log of
\* every IP holds at most RATE_LIMIT timestamps, and after a call for an IP
\* every timestamp in that IP's log is newer than the call's time minus
\* RATE_LIMIT_WINDOW.
C29_LogIsBounded ==
    /\ \A ip \in IPs : Len(request_logs[ip]) <= RATE_LIMIT
    /\ LimitChecked =>
          \A i \in 1..Len(request_logs[last.ip]) :
             request_logs[last.ip][i] > last.at - RATE_LIMIT_WINDOW

\* A call found the log full after the window had moved on: the log holds
\* RATE_LIMIT timestamps of two different times, all inside the window.
C29_Witness ==
    /\ LimitChecked /\ last.exceeded
    /\ last.at >= RATE_LIMIT_WINDOW
    /\ Len(request_logs[last.ip]) = RATE_LIMIT
    /\ request_logs[last.ip][1] < request_logs[last.ip][RATE_LIMIT]
    /\ \E ip \in IPs \ {last.ip} : request_logs[ip] # <<>>

\* The steps of the analysis in the order of the handler.
AnalysisOrder ==
    <<"get_missing_skills", "ATSCalculator", "total_score", "analyze_resume_structure">>

IsPrefix(p, q) == Len(p) <= Len(q) /\ \A i \in 1..Len(p) : p[i] = q[i]

Started(step) == \E i \in 1..Len(last.ran) : last.ran[i] = step

\* The request was accepted and parsed in time, with a job description.
Analysed ==
    /\ Processed /\ JDProvided(request.jd)
    /\ last.hazard \in {"none", "timeout_skills", "timeout_score", "timeout_advice"}

\* What the three analyses return for the request when they are called
\* alone, whatever the state of the taxonomy service.
GapResults ==
    {get_missing_skills(request.jd, request.text, path, f1, f2).ret :
        path \in Paths, f1 \in BOOLEAN, f2 \in BOOLEAN}

ScoreResults ==
    {total_score(ATSCalculator(request.jd, ok, f1).calc,
                 request.text, request.structure, f2).ret :
        ok \in BOOLEAN, f1 \in BOOLEAN, f2 \in BOOLEAN}

\* C30: with a non-empty job description the analyses of /process run in
\* the order missing skills, ATS score, structural advice; a failure or a
\* timeout in one step never fails the request: the response is success,
\* keeps the results of the steps that completed and leaves every later
\* step at its default (score 0, empty lists).
C30_AnalysisDegrades ==
    Analysed =>
       /\ last.status = 200 /\ last.success
       /\ IsPrefix(last.ran, AnalysisOrder)
       /\ IF Started("get_missing_skills")
          THEN last.suggested_skills \in GapResults
          ELSE last.suggested_skills = <<>> /\ last.hazard = "timeout_skills"
       /\ IF Started("total_score")
             /\ ~total_score(ATSCalculator(request.jd, TRUE, FALSE).calc,
                             request.text, request.structure, FALSE).raised
          THEN last.ats_score \in ScoreResults
          ELSE last.ats_score = 0
       /\ IF Started("analyze_resume_structure")
             /\ ~analyze_resume_structure(request.text, request.structure).raised
          THEN last.improvement_recommendation
                  = analyze_resume_structure(request.text, request.structure).ret
          ELSE last.improvement_recommendation = <<>>
       /\ (_validate_text(request.jd) # "ok" /\ last.hazard \in {"none", "timeout_advice"})
             => last.ran = <<"get_missing_skills", "ATSCalculator">>

\* ATSCalculator rejected a job description that is too short, after the
\* missing skills were found: they are kept, the score and the advice are
\* at their defaults and the response is a success.
C30_Witness ==
    /\ Analysed /\ last.hazard = "none"
    /\ _validate_text(request.jd) # "ok"
    /\ last.status = 200 /\ last.success
    /\ last.suggested_skills = <<"python">>
    /\ last.ran = <<"get_missing_skills", "ATSCalculator">>
    /\ last.ats_score = 0 /\ last.improvement_recommendation = <<>>

====
